---- MODULE Spec2Model ----
(***************************************************************************)
(* State-machine model of onsager/GFcalc.py (class GFCrystalcalc): the     *)
(* lattice Green function engine.                                          *)
(*                                                                         *)
(* Numbers.  Complex numbers are Gaussian integers <<re, im>>.  k-points   *)
(* are integer vectors in units of pi/2 and displacements are integer      *)
(* lattice vectors, so exp(1j*k.dx) is a fourth root of unity and the      *)
(* Fourier sums of the code are exact.  Mesh weights are kept as integer   *)
(* numerators over their sum.  The results of the floating-point kernels   *)
(* the engine calls (LA.eigh, np.linalg.inv, the Taylor3D algebra of       *)
(* onsager.PowerExpansion) are part of the rate input x of SetRates: x     *)
(* names the arguments (x.id) and says what those kernels compute on them  *)
(* (x.r0, x.oTD, x.iso, x.sing, x.imIFT, x.imT).                           *)
(***************************************************************************)
EXTENDS Integers, Sequences, FiniteSets, TLC

\* ------------------------------------------------------------------ bounds

\* number of distinct rate arguments (pre, betaene, preT, betaeneT) tried
MaxRates == 2
\* total number of hops of a jump network given to the encoder
MaxHops == 3
\* number of group operations of a crystal given to the index builder
MaxOps == 2
\* largest number of shells asked of Star.generate
MaxShells == 3
\* chemistries of the crystal, substitutional solutes and sites of a supercell
MaxChem == 2
MaxSolute == 2
SupSites == 3

\* ----------------------------------------------------------------- helpers

\* Python values: every value a field or a result holds is a record with a kind k
Unset == [k |-> "unset"]
None == [k |-> "None"]
\* the int 0 that __init__ stores in D and eta
Zero == [k |-> "int", v |-> 0]
PyInt(v) == [k |-> "int", v |-> v]
Float(of) == [k |-> "float", of |-> of]
Array(shape, of) == [k |-> "array", shape |-> shape, of |-> of]
\* a Taylor3D expansion with the given coefflist of terms [n, l, c]
T3D(coefflist) == [k |-> "T3D", coefflist |-> coefflist]
Term(n, l, c) == [n |-> n, l |-> l, c |-> c]

\* the outcome of an operation: it returns val, or raises exc with msg
Return(val) == [exc |-> "none", msg |-> "", val |-> val]
Raise(exc, msg) == [exc |-> exc, msg |-> msg, val |-> None]

Vec0 == <<0, 0, 0>>
Dot(a, b) == a[1] * b[1] + a[2] * b[2] + a[3] * b[3]
MatVec(m, v) == <<Dot(m[1], v), Dot(m[2], v), Dot(m[3], v)>>
Eye3 == <<(<<1, 0, 0>>), (<<0, 1, 0>>), (<<0, 0, 1>>)>>
Inv3 == <<(<<-1, 0, 0>>), (<<0, -1, 0>>), (<<0, 0, -1>>)>>

CAdd(a, b) == <<a[1] + b[1], a[2] + b[2]>>
CMul(a, b) == <<a[1] * b[1] - a[2] * b[2], a[1] * b[2] + a[2] * b[1]>>
CScale(n, a) == <<n * a[1], n * a[2]>>
\* exp(1j * m * pi/2)
Cis(m) ==
  LET r == m % 4
  IN  IF r = 0 THEN <<1, 0>>
      ELSE IF r = 1 THEN <<0, 1>>
      ELSE IF r = 2 THEN <<-1, 0>>
      ELSE <<0, -1>>

\* np.isclose(v, 0) on the exact integers of the model
\* every value passes for zero
IsClose0_any(v) == TRUE

\* np.isclose(v, 0) on the exact values of the model
IsClose0(v) == v = 0
\* np.allclose(q, 0)
AllClose0(q) == IsClose0(q[1]) /\ IsClose0(q[2]) /\ IsClose0(q[3])

RECURSIVE SumSeq(_)
SumSeq(s) == IF s = <<>> THEN 0 ELSE s[1] + SumSeq(Tail(s))

Hop(i, j, dx) == [ij |-> <<i, j>>, dx |-> dx]

\* ----------------------------------------------------- Jump Network Encoder

\* the multiplicity counted at the destination of the hop: SEjumps[j,J] += 1
SEstep_dest(SE, J, hop) ==
  [SE EXCEPT ![hop.ij[2]][J] = @ + 1]

\* SEjumps[i,J] += 1
SEstep(SE, J, hop) ==
  [SE EXCEPT ![hop.ij[1]][J] = @ + 1]

\* the phase added at the transposed entry: FTjumps[J,:,j,i] += ...
FTstep_transposed(FT, J, hop, kpts) ==
  [FT EXCEPT ![J] = [k \in DOMAIN kpts |->
      [@[k] EXCEPT ![hop.ij[2]][hop.ij[1]] = CAdd(@, Cis(Dot(kpts[k], hop.dx)))]]]

\* the phase stored, not added: FTjumps[J,:,i,j] = ...
FTstep_last(FT, J, hop, kpts) ==
  [FT EXCEPT ![J] = [k \in DOMAIN kpts |->
      [@[k] EXCEPT ![hop.ij[1]][hop.ij[2]] = Cis(Dot(kpts[k], hop.dx))]]]

\* FTjumps[J,:,i,j] += np.exp(1.j*np.dot(kpts, dx))
FTstep(FT, J, hop, kpts) ==
  [FT EXCEPT ![J] = [k \in DOMAIN kpts |->
      [@[k] EXCEPT ![hop.ij[1]][hop.ij[2]] = CAdd(@, Cis(Dot(kpts[k], hop.dx)))]]]

RECURSIVE FTloop(_, _, _, _, _)
\* the double loop "for J,jumplist ... for (i,j), dx in jumplist", hop h of class J first
FTloop(acc, jumpnetwork, J, h, kpts) ==
  IF J > Len(jumpnetwork) THEN acc
  ELSE IF h > Len(jumpnetwork[J]) THEN FTloop(acc, jumpnetwork, J + 1, 1, kpts)
  ELSE FTloop([FT |-> FTstep(acc.FT, J, jumpnetwork[J][h], kpts),
               SE |-> SEstep(acc.SE, J, jumpnetwork[J][h])],
              jumpnetwork, J, h + 1, kpts)

\* returns [FT |-> FTjumps[J][k][i][j], SE |-> SEjumps[i][J]]
FourierTransformJumps(jumpnetwork, n, kpts) ==
  FTloop([FT |-> [J \in DOMAIN jumpnetwork |-> [k \in DOMAIN kpts |->
                    [i \in 0..(n - 1) |-> [j \in 0..(n - 1) |-> <<0, 0>>]]]],
          SE |-> [i \in 0..(n - 1) |-> [J \in DOMAIN jumpnetwork |-> 0]]],
         jumpnetwork, 1, 1, kpts)

RECURSIVE T0loop(_, _, _, _)
\* the loops of TaylorExpandJumps for n = 0, hop h of class J first:
\* (c[0][2])[:,i,j] += pre[0]*(T3D.powercoeff[0]*pexp)[:1], a 1 for every hop
T0loop(acc, jumpnetwork, J, h) ==
  IF J > Len(jumpnetwork) THEN acc
  ELSE IF h > Len(jumpnetwork[J]) THEN T0loop(acc, jumpnetwork, J + 1, 1)
  ELSE T0loop([acc EXCEPT ![J][jumpnetwork[J][h].ij[1]][jumpnetwork[J][h].ij[2]] = @ + 1],
              jumpnetwork, J, h + 1)

\* the n = 0 coefficients [J][i][j] of the expansions TaylorExpandJumps returns
TaylorExpandJumps(jumpnetwork, n) ==
  T0loop([J \in DOMAIN jumpnetwork |-> [i \in 0..(n - 1) |-> [j \in 0..(n - 1) |-> 0]]],
         jumpnetwork, 1, 1)

\* --------------------------------------------------- Symmetry Index Builder

\* the tables out of step: every indexpair[:,:,g] filled from the first operation
BreakdownGroups_first(G, n) ==
  [grouparray |-> [g \in DOMAIN G |-> G[g].cartrot],
   indexpair |-> [i \in 0..(n - 1) |-> [j \in 0..(n - 1) |-> [g \in DOMAIN G |->
                    <<G[1].indexmap[i], G[1].indexmap[j]>>]]]]

\* returns [grouparray |-> [g |-> 3x3], indexpair |-> [i][j][g] |-> <<i', j'>>]
BreakdownGroups(G, n) ==
  [grouparray |-> [g \in DOMAIN G |-> G[g].cartrot],
   indexpair |-> [i \in 0..(n - 1) |-> [j \in 0..(n - 1) |-> [g \in DOMAIN G |->
                    <<G[g].indexmap[i], G[g].indexmap[j]>>]]]]

\* ------------------------------------------------ construction (__init__)

\* invmap[i] = ind for i in sitelist[ind] (Wyckoff classes numbered from 0)
InvMap(sitelist, n) ==
  [i \in 0..(n - 1) |->
     (CHOOSE ind \in DOMAIN sitelist : \E p \in DOMAIN sitelist[ind] : sitelist[ind][p] = i) - 1]

\* self.N = sum(len(w) for w in sitelist)
NSites(sitelist) == SumSeq([ind \in DOMAIN sitelist |-> Len(sitelist[ind])])

\* the fields of a freshly constructed engine; c is the crystal with the
\* sitelist, the jump network and the reduced k-point mesh
Construct(c) ==
  LET n  == NSites(c.sitelist)
      im == InvMap(c.sitelist, n)
      bg == BreakdownGroups(c.G, n)
      ft == FourierTransformJumps(c.jumpnetwork, n, c.kpts)
  IN  [N |-> n, invmap |-> im, NG |-> Len(c.G),
       grouparray |-> bg.grouparray, indexpair |-> bg.indexpair,
       kpts |-> c.kpts, wts |-> c.wts, FTjumps |-> ft.FT, SEjumps |-> ft.SE,
       jumppairs |-> [J \in DOMAIN c.jumpnetwork |->
                        <<im[c.jumpnetwork[J][1].ij[1]], im[c.jumpnetwork[J][1].ij[2]]>>]]

\* ----------------------------------------------------------- the crystals

\* reduced mesh of the 4-point mesh along x: k = 0, pi/2, pi; weights 1/4, 2/4, 1/4
MeshX == <<(<<0, 0, 0>>), (<<1, 0, 0>>), (<<2, 0, 0>>)>>
WtsX == <<1, 2, 1>>
\* full 2-point mesh along x, for a crystal without inversion: weights 1/2, 1/2
MeshFull == <<(<<0, 0, 0>>), (<<2, 0, 0>>)>>
WtsFull == <<1, 1>>

Ident(n) == [i \in 0..(n - 1) |-> i]
Swap2 == [i \in 0..1 |-> 1 - i]

\* one site, hops +x and -x; point group {E, inversion}
Chain1 ==
  [sitelist |-> <<(<<0>>)>>,
   jumpnetwork |-> <<(<<Hop(0, 0, <<1, 0, 0>>), Hop(0, 0, <<-1, 0, 0>>)>>)>>,
   G |-> <<[cartrot |-> Eye3, indexmap |-> Ident(1)],
           [cartrot |-> Inv3, indexmap |-> Ident(1)]>>,
   kpts |-> MeshX, wts |-> WtsX]

\* two sites in one Wyckoff class, exchanged by the inversion
Pair2 ==
  [sitelist |-> <<(<<0, 1>>)>>,
   jumpnetwork |-> <<(<<Hop(0, 1, <<1, 0, 0>>), Hop(1, 0, <<-1, 0, 0>>)>>),
                     (<<Hop(0, 0, <<0, 1, 0>>), Hop(0, 0, <<0, -1, 0>>),
                        Hop(1, 1, <<0, 1, 0>>), Hop(1, 1, <<0, -1, 0>>)>>)>>,
   G |-> <<[cartrot |-> Eye3, indexmap |-> Ident(2)],
           [cartrot |-> Inv3, indexmap |-> Swap2]>>,
   kpts |-> MeshX, wts |-> WtsX]

\* two inequivalent sites, trivial point group
Two2 ==
  [sitelist |-> <<(<<0>>), (<<1>>)>>,
   jumpnetwork |-> <<(<<Hop(0, 1, <<1, 0, 0>>), Hop(1, 0, <<-1, 0, 0>>)>>)>>,
   G |-> <<[cartrot |-> Eye3, indexmap |-> Ident(2)]>>,
   kpts |-> MeshFull, wts |-> WtsFull]

Crystals == {"Chain1", "Pair2", "Two2"}
Crystal(name) == IF name = "Chain1" THEN Chain1 ELSE IF name = "Pair2" THEN Pair2 ELSE Two2

\* displacements the evaluator is asked for
EvalDx == {<<0, 0, 0>>, <<1, 0, 0>>}

\* ------------------------------------------------------------- rate inputs

\* One argument tuple (pre, betaene, preT, betaeneT) of SetRates, with what the
\* numerical kernels compute on it:
\*   id     which arguments
\*   r0     r[0] of DiagGamma (0: np.isclose(r[0], 0))
\*   oTD    the reduced diffusivity series of BlockRotateOmegaTaylor: "D2"
\*          (it begins with an n=2 term, l=2), "low" (it has a term n<2)
\*   iso    whether irotate + reduce leave the leading term of oT_D with l = 0
\*   sing   which inversion meets a singular matrix: rr.inv() ("rr"), D.inv()
\*          ("D"), np.linalg.inv(omega_qij[q]) at a q != 0 ("q"), or "none"
\*   imIFT  imaginary part of the semicontinuum residual at q != 0
\*   imT    imaginary part of the real-space Taylor pieces gT_ij
\* Fields that the code never gets to read on such arguments are left at
\* their first value, so that each behaviour of SetRates is one input per id.
RateInputs ==
  {x \in [id : 1..MaxRates, r0 : {0, 1}, oTD : {"D2", "low"}, iso : BOOLEAN,
          sing : {"none", "rr", "D", "q"}, imIFT : {0, 1}, imT : {0, 1}] :
     /\ (x.r0 # 0) => (x.sing = "none")
     /\ (x.r0 # 0 \/ x.sing = "rr") => (x.oTD = "D2")
     /\ (x.r0 # 0 \/ x.sing = "rr" \/ x.oTD = "low") => x.iso
     /\ (x.oTD = "low" \/ ~x.iso) => (x.sing = "none")
     /\ (x.r0 # 0 \/ x.oTD = "low" \/ ~x.iso \/ x.sing # "none") => (x.imIFT = 0 /\ x.imT = 0)}

\* T3D.Lmax, the order to which TaylorExpandJumps expands
Lmax == 4

\* coefflist of omega_Taylor: TaylorExpandJumps gives every class the terms
\* (n, n, c) for n = 0..Lmax, SetRates sums them and adds the escape term
OmegaTaylor(x) == T3D([p \in 1..(Lmax + 1) |-> Term(p - 1, p - 1, x.id)])

\* the series D of BlockRotateOmegaTaylor after truncate and reduce
ReducedD(x) ==
  IF x.oTD = "D2" THEN T3D(<<Term(2, 2, x.id), Term(4, 4, x.id)>>)
  ELSE T3D(<<Term(0, 0, x.id), Term(2, 2, x.id)>>)

\* ---------------------------------------------------------------- DiagGamma

RECURSIVE GammaScan(_, _)
\* the scan for the n=0 term: "raise", "found" or "missing"
GammaScan(coefflist, p) ==
  IF p > Len(coefflist) THEN "missing"
  ELSE IF coefflist[p].n < 0 THEN "below"
  ELSE IF coefflist[p].n = 0 THEN (IF coefflist[p].l # 0 THEN "angular" ELSE "found")
  ELSE GammaScan(coefflist, p + 1)

\* LA.eigh: the eigenvectors as columns vr[i][c], scaled to integers; column 0
\* belongs to the eigenvalue r[0]
Eigenvectors(n) ==
  [i \in 0..(n - 1) |-> [c \in 0..(n - 1) |->
     IF c = 0 THEN 1 ELSE IF i = c THEN -c ELSE IF i < c THEN 1 ELSE 0]]

\* returns [r0, vr]: r[0] and the eigenvectors
DiagGamma(self, omega, x) ==
  LET scan == GammaScan(omega.coefflist, 1)
  IN  IF scan = "below" THEN Raise("ValueError", "Taylor expansion has terms below n=0?")
      ELSE IF scan = "angular" THEN Raise("ValueError", "n=0 term has angular dependence? l != 0")
      ELSE Return([r0 |-> IF scan = "found" THEN x.r0 ELSE 0,
                   vr |-> [id |-> x.id, m |-> Eigenvectors(self.N)]])

\* ------------------------------------------------------------ the accessors

RECURSIVE DLoop(_, _, _)
\* the loop of Diffusivity over coefflist: whether it raises, and the n=2 terms it adds up
DLoop(coefflist, p, acc) ==
  IF p > Len(coefflist) THEN [raises |-> FALSE, terms |-> acc]
  ELSE IF coefflist[p].n < 2 THEN [raises |-> TRUE, terms |-> acc]
  ELSE IF coefflist[p].n = 2 THEN DLoop(coefflist, p + 1, Append(acc, coefflist[p]))
  ELSE DLoop(coefflist, p + 1, acc)

\* the stored D, or -D*self.maxrate computed from the n=2 terms of the argument
Diffusivity(self, omega_Taylor_D) ==
  IF self.D # Zero /\ omega_Taylor_D = None THEN Return(self.D)
  ELSE IF self.D = Zero /\ omega_Taylor_D = None
    THEN Raise("ValueError", "Need omega_Taylor_D value")
  ELSE LET loop == DLoop(omega_Taylor_D.coefflist, 1, <<>>)
       IN  IF loop.raises
             THEN Raise("ValueError", "Reduced Taylor expansion for D doesn't begin with n==2")
           ELSE IF self.maxrate = Unset THEN Raise("AttributeError", "maxrate")
           ELSE Return(Array(<<3, 3>>, [terms |-> loop.terms, maxrate |-> self.maxrate]))

RECURSIVE EtaLoop(_, _, _, _)
\* the loop of biascorrection over coefflist
EtaLoop(self, coefflist, p, acc) ==
  IF p > Len(coefflist) THEN Return(Array(<<self.N, 3>>, [terms |-> acc]))
  ELSE IF coefflist[p].n < 1
    THEN Raise("ValueError", "Reduced Taylor expansion for etav doesn't begin with n==1")
  ELSE IF coefflist[p].n = 1 /\ coefflist[p].l >= 1
    THEN (IF self.vr = Unset THEN Raise("AttributeError", "vr")
          ELSE EtaLoop(self, coefflist, p + 1, Append(acc, [c |-> coefflist[p], vr |-> self.vr])))
  ELSE EtaLoop(self, coefflist, p + 1, acc)

biascorrection(self, etav) ==
  IF etav = None THEN Return(self.eta)
  ELSE IF etav = Zero THEN Return(Array(<<self.N, 3>>, [terms |-> <<>>]))
  ELSE EtaLoop(self, etav.coefflist, 1, <<>>)

\* ------------------------------------------------ Rate Assembly & Block Algebra

\* the relaxive branch taken whatever N is
BlockRotateOmegaTaylor_relaxive(self, x) ==
  IF x.sing = "rr" THEN Raise("ComputationError", "rr.inv()")
  ELSE Return([oT_D |-> ReducedD(x), etav |-> T3D(<<Term(1, 1, x.id)>>),
               D_from |-> "dd - dr*rr.inv()*rd", inverted |-> <<"rr", "rr">>])

\* returns [oT_D, etav]; N > 1 inverts rr, N = 1 has no relaxive block.
\* D_from names the expression D is computed from and inverted lists the
\* blocks whose inv() the call has run.
BlockRotateOmegaTaylor(self, x) ==
  IF self.N > 1
    THEN IF x.sing = "rr" THEN Raise("ComputationError", "rr.inv()")
         ELSE Return([oT_D |-> ReducedD(x), etav |-> T3D(<<Term(1, 1, x.id)>>),
                      D_from |-> "dd - dr*rr.inv()*rd", inverted |-> <<"rr", "rr">>])
    ELSE Return([oT_D |-> ReducedD(x), etav |-> Zero,
                 D_from |-> "dd", inverted |-> <<>>])

\* t.irotate(powtrans); t.reduce() on oT_D: the leading term keeps its order n
\* and gets l = 0 when the rotation makes it isotropic
RotateReduce(oT_D, x) ==
  T3D([p \in DOMAIN oT_D.coefflist |->
         IF p = 1 /\ x.iso THEN [oT_D.coefflist[p] EXCEPT !.l = 0] ELSE oT_D.coefflist[p]])

\* the check reading the order n of the leading term: oT_D.coefflist[0][0] != 0
NotIsotropized_n(oT_D) == oT_D.coefflist[1].n # 0

\* oT_D.coefflist[0][1] != 0
NotIsotropized(oT_D) == oT_D.coefflist[1].l # 0

\* the blocks BlockInvertOmegaTaylor inverts: D, then rr if N > 1
BlockInvertInversions(self) == IF self.N > 1 THEN <<"D", "rr">> ELSE <<"D">>

\* D_inv = D.inv() and the block inverse; returns the series gT
BlockInvertOmegaTaylor(self, x) ==
  IF \E p \in DOMAIN BlockInvertInversions(self) : BlockInvertInversions(self)[p] = x.sing
    THEN Raise("ComputationError", x.sing \o ".inv()")
  ELSE Return(T3D(<<Term(-2, 0, x.id), Term(0, 4, x.id)>>))

\* gsc_qij[qind] at the gamma point: (-1/pmax**2) * outer(vr[:,0], vr[:,0]);
\* x.id stands for 1/pmax**2
GammaResidual(self, x, i, j) == <<-x.id * self.vr.of.m[i][0] * self.vr.of.m[j][0], 0>>
\* gsc_qij[qind] elsewhere: inv(omega_qij[qind]) - g_Taylor(pqtrans.q)
SemiResidual(x, i, j) == <<x.id, x.imIFT>>

\* the loop without the gamma-point branch: omega_qij[q] is inverted at every
\* k-point, and at q = 0 it is singular whenever the rates have an equilibrium
FourierInvert_all(self, x) ==
  IF \E q \in DOMAIN self.kpts : AllClose0(self.kpts[q]) \/ x.sing = "q"
    THEN Raise("LinAlgError", "Singular matrix")
  ELSE Return([q \in DOMAIN self.kpts |-> [i \in 0..(self.N - 1) |->
                 [j \in 0..(self.N - 1) |-> SemiResidual(x, i, j)]]])

\* step 5 of SetRates: returns gsc_qij[q][i][j]
FourierInvert(self, x) ==
  IF x.sing = "q" /\ \E q \in DOMAIN self.kpts : ~AllClose0(self.kpts[q])
    THEN Raise("LinAlgError", "Singular matrix")
  ELSE Return([q \in DOMAIN self.kpts |-> [i \in 0..(self.N - 1) |->
                 [j \in 0..(self.N - 1) |->
                    IF AllClose0(self.kpts[q]) THEN GammaResidual(self, x, i, j)
                    ELSE SemiResidual(x, i, j)]]])

Failed(self, out) == [st |-> self, out |-> Raise(out.exc, out.msg)]

\* SetRates(pre, betaene, preT, betaeneT): the engine after the call and its
\* outcome.  A raise leaves the fields assigned so far (s1..s6) in place.
SetRates(self, x) ==
  LET s1 == [self EXCEPT !.maxrate = Float(<<"maxrate", x.id>>)]
      dg == DiagGamma(s1, OmegaTaylor(x), x)
  IN  IF dg.exc # "none" THEN Failed(s1, dg) ELSE
  LET s2 == [s1 EXCEPT !.vr = Array(<<self.N, self.N>>, dg.val.vr)]
  IN  IF ~IsClose0(dg.val.r0)
        THEN Failed(s2, Raise("ArithmeticError", "No equilibrium solution to rates?")) ELSE
  LET br == BlockRotateOmegaTaylor(s2, x)
  IN  IF br.exc # "none" THEN Failed(s2, br) ELSE
  LET dv == Diffusivity(s2, br.val.oT_D)
  IN  IF dv.exc # "none" THEN Failed(s2, dv) ELSE
  LET s3 == [s2 EXCEPT !.D = dv.val]
      bv == biascorrection(s3, br.val.etav)
  IN  IF bv.exc # "none" THEN Failed(s3, bv) ELSE
  LET s4 == [s3 EXCEPT !.eta = bv.val]
      s5 == [s4 EXCEPT !.uxtrans = Array(<<3, 3>>, <<"uxtrans", x.id>>)]
      oT_D == RotateReduce(br.val.oT_D, x)
  IN  IF NotIsotropized(oT_D)
        THEN Failed(s5, Raise("ArithmeticError", "Problem isotropizing D?")) ELSE
  LET bi == BlockInvertOmegaTaylor(s5, x)
  IN  IF bi.exc # "none" THEN Failed(s5, bi) ELSE
  LET s6 == [s5 EXCEPT !.g_Taylor_fnlu = [k |-> "dict", of |-> <<"fnlu", x.id>>]]
      fi == FourierInvert(s6, x)
  IN  IF fi.exc # "none" THEN Failed(s6, fi) ELSE
      [st |-> [s6 EXCEPT
                 !.gsc_ijq = Array(<<self.N, self.N, Len(self.kpts)>>,
                    [i \in 0..(self.N - 1) |-> [j \in 0..(self.N - 1) |->
                       [q \in DOMAIN self.kpts |-> fi.val[q][i][j]]]]),
                 !.gT_ij = [k |-> "tuple", a |->
                    [i \in 0..(self.N - 1) |-> [j \in 0..(self.N - 1) |->
                       [c |-> <<"gT", x.id, i, j>>, im |-> x.imT]]]]],
       out |-> Return(None)]

\* ---------------------------------------------------------------- Evaluator

RECURSIVE CSum(_)
CSum(s) == IF s = <<>> THEN <<0, 0>> ELSE CAdd(s[1], CSum(Tail(s)))

\* exp_dxq(dx): exp(-1j * kpts.dx) at every k-point
exp_dxq(self, dx) == [q \in DOMAIN self.kpts |-> Cis(-Dot(self.kpts[q], dx))]

\* np.dot(self.wts, self.gsc_ijq[pair[0],pair[1]] * self.exp_dxq(np.dot(gop, dx)))
MeshTerm(self, pair, gop, dx) ==
  LET e == exp_dxq(self, MatVec(gop, dx))
  IN  CSum([q \in DOMAIN self.kpts |->
              CScale(self.wts[q], CMul(self.gsc_ijq.of[pair[1]][pair[2]][q], e[q]))])

\* gIFT before the division by NG: numerator over sum(wts) * NG
MeshSum(self, i, j, dx) ==
  CSum([g \in DOMAIN self.grouparray |->
          MeshTerm(self, self.indexpair[i][j][g], self.grouparray[g], dx)])

\* Taylor3D.__call__: self.gT_ij[i][j](np.dot(self.uxtrans, dx), self.g_Taylor_fnlu)
T3Dcall(series, u, fnlu) == [re |-> <<series.c, u, fnlu>>, im |-> series.im]

\* __call__ with the Taylor part evaluated and checked before the mesh sum
Call_TaylorFirst(self, i, j, dx) ==
  IF self.D = Zero THEN Raise("ValueError", "Need to SetRates first")
  ELSE IF self.gT_ij = Unset THEN Raise("AttributeError", "gT_ij")
  ELSE LET gTaylor == T3Dcall(self.gT_ij.a[i][j], <<self.uxtrans.of, dx>>,
                              self.g_Taylor_fnlu.of)
       IN  IF ~IsClose0(gTaylor.im)
             THEN Raise("ArithmeticError", "Got complex IFT from Taylor?")
           ELSE LET gIFT == MeshSum(self, i, j, dx)
                IN  IF ~IsClose0(gIFT[2]) THEN Raise("ArithmeticError", "Got complex IFT?")
                    ELSE Return(Float([gIFT |-> gIFT[1], over |-> self.NG * SumSeq(self.wts),
                                       gTaylor |-> gTaylor.re, maxrate |-> self.maxrate]))

\* __call__(i, j, dx)
Call(self, i, j, dx) ==
  IF self.D = Zero THEN Raise("ValueError", "Need to SetRates first")
  ELSE IF self.gsc_ijq = Unset THEN Raise("AttributeError", "gsc_ijq")
  ELSE LET gIFT == MeshSum(self, i, j, dx)
       IN  IF ~IsClose0(gIFT[2]) THEN Raise("ArithmeticError", "Got complex IFT?")
           ELSE IF self.gT_ij = Unset THEN Raise("AttributeError", "gT_ij")
           ELSE LET gTaylor == T3Dcall(self.gT_ij.a[i][j], <<self.uxtrans.of, dx>>,
                                       self.g_Taylor_fnlu.of)
                IN  IF ~IsClose0(gTaylor.im)
                      THEN Raise("ArithmeticError", "Got complex IFT from Taylor?")
                    ELSE Return(Float([gIFT |-> gIFT[1], over |-> self.NG * SumSeq(self.wts),
                                       gTaylor |-> gTaylor.re, maxrate |-> self.maxrate]))

\* ------------------------------------------------------------------- state

VARIABLES
  crys,           \* the crystal given to __init__
  jumpnetwork,    \* the jump network given to __init__ (the engine keeps no copy)
  built,          \* whether __init__ has run
  N, invmap, NG, grouparray, indexpair, kpts, wts, FTjumps, SEjumps, jumppairs,
  maxrate, vr, D, eta, uxtrans, g_Taylor_fnlu, gsc_ijq, gT_ij,
  ret,            \* the last operation, its arguments and its outcome
  committed,      \* the input of the last SetRates that returned, or None
  failedSince,    \* whether a SetRates call has raised since then
  star,           \* the Star object of stars.py
  dstar,          \* the DoubleStar object of stars.py
  sup,            \* the Supercell object of supercell.py
  gsuper          \* the Supercell returned by copy() or by a product, and what it shares

topology == <<N, invmap, NG, grouparray, indexpair, kpts, wts, FTjumps, SEjumps, jumppairs>>
rated == <<maxrate, vr, D, eta, uxtrans, g_Taylor_fnlu, gsc_ijq, gT_ij>>
\* the objects of the other modules
others == <<star, dstar, sup, gsuper>>
vars == <<crys, jumpnetwork, built, topology, rated, ret, committed, failedSince, others>>

\* no object of the other modules exists
NoOthers == star = Unset /\ dstar = Unset /\ sup = Unset /\ gsuper = Unset

\* the engine object
Self ==
  [N |-> N, invmap |-> invmap, NG |-> NG, grouparray |-> grouparray,
   indexpair |-> indexpair, kpts |-> kpts, wts |-> wts, FTjumps |-> FTjumps,
   SEjumps |-> SEjumps, jumppairs |-> jumppairs,
   maxrate |-> maxrate, vr |-> vr, D |-> D, eta |-> eta, uxtrans |-> uxtrans,
   g_Taylor_fnlu |-> g_Taylor_fnlu, gsc_ijq |-> gsc_ijq, gT_ij |-> gT_ij]

\* the engine becomes st
Becomes(st) ==
  /\ N' = st.N /\ invmap' = st.invmap /\ NG' = st.NG
  /\ grouparray' = st.grouparray /\ indexpair' = st.indexpair
  /\ kpts' = st.kpts /\ wts' = st.wts /\ FTjumps' = st.FTjumps
  /\ SEjumps' = st.SEjumps /\ jumppairs' = st.jumppairs
  /\ maxrate' = st.maxrate /\ vr' = st.vr /\ D' = st.D /\ eta' = st.eta
  /\ uxtrans' = st.uxtrans /\ g_Taylor_fnlu' = st.g_Taylor_fnlu
  /\ gsc_ijq' = st.gsc_ijq /\ gT_ij' = st.gT_ij

\* __init__ (and loadhdf5, which restores the same fields): the topology of
\* the crystal, self.D, self.eta = 0, 0, and no rate field yet
New(c) ==
  LET t == Construct(c)
  IN  [N |-> t.N, invmap |-> t.invmap, NG |-> t.NG, grouparray |-> t.grouparray,
       indexpair |-> t.indexpair, kpts |-> t.kpts, wts |-> t.wts, FTjumps |-> t.FTjumps,
       SEjumps |-> t.SEjumps, jumppairs |-> t.jumppairs,
       maxrate |-> Unset, vr |-> Unset, D |-> Zero, eta |-> Zero, uxtrans |-> Unset,
       g_Taylor_fnlu |-> Unset, gsc_ijq |-> Unset, gT_ij |-> Unset]

Result(op, arg, out) == [op |-> op, arg |-> arg, exc |-> out.exc, msg |-> out.msg, val |-> out.val]

\* the engine is st
Is(st) ==
  /\ N = st.N /\ invmap = st.invmap /\ NG = st.NG
  /\ grouparray = st.grouparray /\ indexpair = st.indexpair
  /\ kpts = st.kpts /\ wts = st.wts /\ FTjumps = st.FTjumps
  /\ SEjumps = st.SEjumps /\ jumppairs = st.jumppairs
  /\ maxrate = st.maxrate /\ vr = st.vr /\ D = st.D /\ eta = st.eta
  /\ uxtrans = st.uxtrans /\ g_Taylor_fnlu = st.g_Taylor_fnlu
  /\ gsc_ijq = st.gsc_ijq /\ gT_ij = st.gT_ij

\* an engine constructed on one of the crystals
Init ==
  /\ crys \in Crystals
  /\ jumpnetwork = Crystal(crys).jumpnetwork
  /\ built = TRUE
  /\ Is(New(Crystal(crys)))
  /\ ret = Result("__init__", None, Return(None))
  /\ committed = None
  /\ failedSince = FALSE
  /\ NoOthers

\* expansions a caller hands to Diffusivity(omega_Taylor_D) and biascorrection(etav)
UserD == {T3D(<<Term(2, 2, 0)>>), T3D(<<Term(1, 1, 0), Term(2, 2, 0)>>)}
UserEta == {Zero, T3D(<<Term(1, 1, 0)>>), T3D(<<Term(0, 0, 0), Term(1, 1, 0)>>)}

DoSetRates ==
  /\ built
  /\ \E x \in RateInputs :
       /\ (x.sing = "rr") => (N > 1)
       /\ LET r == SetRates(Self, x)
          IN  /\ Becomes(r.st)
              /\ ret' = Result("SetRates", x, r.out)
              /\ committed' = IF r.out.exc = "none" THEN x ELSE committed
              /\ failedSince' = (r.out.exc # "none")
  /\ UNCHANGED <<crys, jumpnetwork, built, others>>

\* an evaluator that leaves the rate scale reset behind it
Evaluate_rescaling(self, i, j, dx) ==
  [st |-> [self EXCEPT !.maxrate = Float(<<"maxrate", 0>>)], out |-> Call(self, i, j, dx)]

\* the engine after __call__, and what the call returned
Evaluate(self, i, j, dx) == [st |-> self, out |-> Call(self, i, j, dx)]

DoCall ==
  /\ built
  /\ \E i \in 0..(N - 1), j \in 0..(N - 1), dx \in EvalDx :
       LET r == Evaluate(Self, i, j, dx)
           a == [i |-> i, j |-> j, dx |-> dx]
       IN  /\ Becomes(r.st)
           /\ ret' = Result("__call__", a, r.out)
  /\ UNCHANGED <<crys, jumpnetwork, built, committed, failedSince, others>>

\* the engine after Diffusivity(arg), and what it returned
GetDiffusivity(self, arg) == [st |-> self, out |-> Diffusivity(self, arg)]

DoDiffusivity ==
  /\ built
  /\ \E arg \in {None} \cup UserD :
       LET r == GetDiffusivity(Self, arg)
       IN  /\ Becomes(r.st)
           /\ ret' = Result("Diffusivity", arg, r.out)
  /\ UNCHANGED <<crys, jumpnetwork, built, committed, failedSince, others>>

\* the engine after biascorrection(arg), and what it returned
GetBiascorrection(self, arg) == [st |-> self, out |-> biascorrection(self, arg)]

DoBiascorrection ==
  /\ built
  /\ \E arg \in {None} \cup UserEta :
       LET r == GetBiascorrection(Self, arg)
       IN  /\ Becomes(r.st)
           /\ ret' = Result("biascorrection", arg, r.out)
  /\ UNCHANGED <<crys, jumpnetwork, built, committed, failedSince, others>>

Next == DoSetRates \/ DoCall \/ DoDiffusivity \/ DoBiascorrection

Spec == Init /\ [][Next]_vars

\* ----------------------------------------- construction on any jump network

\* hop vectors of the jump networks handed to __init__ (units of the cell)
EncDx == {<<1, 0, 0>>, <<-1, 0, 0>>}
\* two sites in one Wyckoff class, trivial point group
EncSitelist == <<(<<0, 1>>)>>
EncHops ==
  {Hop(i, j, dx) : i \in 0..(NSites(EncSitelist) - 1), j \in 0..(NSites(EncSitelist) - 1),
                   dx \in EncDx}

RECURSIVE Networks(_)
\* the jump networks of at most budget hops: lists of non-empty jump classes
Networks(budget) ==
  {<<>>} \cup UNION {{<<c>> \o rest : c \in [1..h -> EncHops], rest \in Networks(budget - h)} :
                       h \in 1..budget}

EncCrystal(nw) ==
  [sitelist |-> EncSitelist, jumpnetwork |-> nw,
   G |-> <<[cartrot |-> Eye3, indexmap |-> Ident(NSites(EncSitelist))]>>,
   kpts |-> MeshX, wts |-> WtsX]

\* before __init__: no field exists
InitEnc ==
  /\ crys = "input"
  /\ jumpnetwork \in Networks(MaxHops) \ {<<>>}
  /\ built = FALSE
  /\ N = Unset /\ invmap = Unset /\ NG = Unset /\ grouparray = Unset
  /\ indexpair = Unset /\ kpts = Unset /\ wts = Unset /\ FTjumps = Unset
  /\ SEjumps = Unset /\ jumppairs = Unset
  /\ maxrate = Unset /\ vr = Unset /\ D = Unset /\ eta = Unset /\ uxtrans = Unset
  /\ g_Taylor_fnlu = Unset /\ gsc_ijq = Unset /\ gT_ij = Unset
  /\ ret = Result("none", None, Return(None))
  /\ committed = None
  /\ failedSince = FALSE
  /\ NoOthers

\* __init__(crys, chem, sitelist, jumpnetwork, Nmax)
DoInit ==
  /\ ~built
  /\ built' = TRUE
  /\ Becomes(New(EncCrystal(jumpnetwork)))
  /\ ret' = Result("__init__", None, Return(None))
  /\ UNCHANGED <<crys, jumpnetwork, committed, failedSince, others>>

NextEnc == DoInit

SpecEnc == InitEnc /\ [][NextEnc]_vars

\* ------------------------------------------- construction on any group

\* the operations of crys.G: a Cartesian rotation with a site map, which a
\* well-formed crystal makes a permutation of the sites
GrpOps ==
  {[cartrot |-> r, indexmap |-> im] :
     r \in {Eye3, Inv3}, im \in [0..(NSites(EncSitelist) - 1) -> 0..(NSites(EncSitelist) - 1)]}

GrpLists == UNION {[1..n -> GrpOps] : n \in 1..MaxOps}

GrpCrystal(G) ==
  [sitelist |-> EncSitelist, jumpnetwork |-> Pair2.jumpnetwork, G |-> G,
   kpts |-> MeshX, wts |-> WtsX]

\* before __init__, with crys the crystal handed to it
InitGrp ==
  /\ crys \in {GrpCrystal(G) : G \in GrpLists}
  /\ jumpnetwork = crys.jumpnetwork
  /\ built = FALSE
  /\ N = Unset /\ invmap = Unset /\ NG = Unset /\ grouparray = Unset
  /\ indexpair = Unset /\ kpts = Unset /\ wts = Unset /\ FTjumps = Unset
  /\ SEjumps = Unset /\ jumppairs = Unset
  /\ maxrate = Unset /\ vr = Unset /\ D = Unset /\ eta = Unset /\ uxtrans = Unset
  /\ g_Taylor_fnlu = Unset /\ gsc_ijq = Unset /\ gT_ij = Unset
  /\ ret = Result("none", None, Return(None))
  /\ committed = None
  /\ failedSince = FALSE
  /\ NoOthers

\* __init__(crys, chem, sitelist, jumpnetwork, Nmax)
DoInitGrp ==
  /\ ~built
  /\ built' = TRUE
  /\ Becomes(New(crys))
  /\ ret' = Result("__init__", None, Return(None))
  /\ UNCHANGED <<crys, jumpnetwork, committed, failedSince, others>>

NextGrp == DoInitGrp

SpecGrp == InitGrp /\ [][NextGrp]_vars

\* ------------------------------------------------------- stars.py: Star

VAdd(a, b) == <<a[1] + b[1], a[2] + b[2], a[3] + b[3]>>
Norm2(v) == Dot(v, v)

\* the numbers of a finite set, ascending
Ascending(S) ==
  [k \in 1..Cardinality(S) |-> CHOOSE x \in S : Cardinality({y \in S : y < x}) = k - 1]

\* not all(abs(v1 + v2) < threshold)
NotZero(v) == v # Vec0

\* [v1+v2 for v1 in lastshell for v2 in self.NNvect if not all(abs(v1 + v2) < threshold)]:
\* v1 is the outer loop, v2 the inner one
NextShell(lastshell, NNvect) ==
  LET m == Len(NNvect)
  IN  SelectSeq([i \in 1..(Len(lastshell) * m) |->
                   VAdd(lastshell[((i - 1) \div m) + 1], NNvect[((i - 1) % m) + 1])], NotZero)

RECURSIVE Shells(_, _, _, _)
\* the loop "for i in range(Nshells-1)": vectlist += lastshell
Shells(vectlist, lastshell, NNvect, i) ==
  IF i <= 0 THEN vectlist
  ELSE LET l == NextShell(lastshell, NNvect)
       IN  Shells(vectlist \o l, l, NNvect, i - 1)

RECURSIVE SortFrom(_, _)
\* the vectors of vs with a key in keys, by increasing key, equal keys in the order of vs
SortFrom(vs, keys) ==
  IF keys = {} THEN <<>>
  ELSE LET k == CHOOSE k \in keys : \A m \in keys : k <= m
           IsK(v) == Norm2(v) = k
       IN  SelectSeq(vs, IsK) \o SortFrom(vs, keys \ {k})

\* vectlist.sort(key=lambda x: np.vdot(x, x)), a stable sort
SortByNorm(vs) == SortFrom(vs, {Norm2(vs[i]) : i \in DOMAIN vs})

\* x2_indices: the 0-based positions where the magnitude exceeds x2old, the
\* largest magnitude met before (vectlist[0]'s at first), then len(vectlist)
X2Scan(vs) ==
  LET Grows(p) == \A q \in 1..(IF p = 1 THEN 1 ELSE p - 1) : Norm2(vs[p]) > Norm2(vs[q])
  IN  Append(Ascending({p - 1 : p \in {p \in DOMAIN vs : Grows(p)}}), Len(vs))

\* vectors of one length taken for equivalent
StarSymmatch_norm(x, xcomp, groupops) == Norm2(x) = Norm2(xcomp)

\* Star.symmatch(x, xcomp)
StarSymmatch(x, xcomp, groupops) ==
  \E g \in DOMAIN groupops : x = MatVec(groupops[g], xcomp)

\* the loop over complist_stars, which goes on after a match: x joins every
\* star whose first vector it matches, or starts a new one
JoinStars(cstars, x, groupops) ==
  IF \E i \in DOMAIN cstars : StarSymmatch(x, cstars[i][1], groupops)
    THEN [i \in DOMAIN cstars |->
            IF StarSymmatch(x, cstars[i][1], groupops) THEN Append(cstars[i], x) ELSE cstars[i]]
    ELSE Append(cstars, <<x>>)

\* complist_pts of "for x in vectlist[xmin:xmax]": the vectors of the slice
\* that no vector before them in the slice equals, in the order of the slice
UniquePts(vs, xmin, xmax) ==
  LET first == Ascending({p \in (xmin + 1)..xmax :
                            \A q \in (xmin + 1)..(p - 1) : vs[q] # vs[p]})
  IN  [c \in DOMAIN first |-> vs[first[c]]]

RECURSIVE ShellScan(_, _, _, _)
\* complist_stars of the slice: each unique point, from the p-th on, joins
\* stars or starts one
ShellScan(cpts, p, cstars, groupops) ==
  IF p > Len(cpts) THEN cstars
  ELSE ShellScan(cpts, p + 1, JoinStars(cstars, cpts[p], groupops), groupops)

RECURSIVE StarLoop(_, _, _, _, _, _, _)
\* "for xmax in x2_indices": self.stars += complist_stars; ptlist += complist_pts
StarLoop(vs, x2_indices, k, xmin, stars, ptlist, groupops) ==
  IF k > Len(x2_indices) THEN [stars |-> stars, pts |-> ptlist]
  ELSE LET complist_pts == UniquePts(vs, xmin, x2_indices[k])
       IN  StarLoop(vs, x2_indices, k + 1, x2_indices[k],
                    stars \o ShellScan(complist_pts, 1, <<>>, groupops),
                    ptlist \o complist_pts, groupops)

\* Star.generate(Nshells): the object after the call, and the outcome
StarGenerate(self, Nshells) ==
  IF Nshells = 0
    THEN [st |-> [self EXCEPT !.Nshells = 0, !.Nstars = 0, !.Npts = 0,
                              !.has = @ \cup {"Nshells", "Nstars", "Npts"}],
          out |-> Return(None)]
  ELSE IF "Nshells" \notin self.has
    THEN [st |-> self, out |-> Raise("AttributeError", "Nshells")]
  ELSE IF Nshells = self.Nshells THEN [st |-> self, out |-> Return(None)]
  ELSE LET vectlist == SortByNorm(Shells(self.NNvect, self.NNvect, self.NNvect, Nshells - 1))
           x2_indices == X2Scan(vectlist)
           r == StarLoop(vectlist, x2_indices, 1, 0, <<>>, <<>>, self.groupops)
       IN  [st |-> [self EXCEPT !.Nshells = Nshells, !.stars = r.stars, !.pts = r.pts,
                                !.Nstars = Len(r.stars), !.Npts = Len(r.pts),
                                !.index = None,
                                !.has = {"Nshells", "Nstars", "Npts", "stars", "pts", "index"}],
            out |-> Return(None)]

\* Star.__init__(NNvect, groupops, Nshells): the attributes it assigns before
\* it calls generate, then generate.  has lists the other attributes that
\* exist; one that does not exist holds a placeholder no operation reads.
StarInit(NNvect, groupops, Nshells) ==
  StarGenerate([NNvect |-> NNvect, groupops |-> groupops, has |-> {}, Nshells |-> 0,
                Nstars |-> 0, Npts |-> 0, stars |-> <<>>, pts |-> <<>>,
                index |-> None], Nshells)

\* the stars of the magnitude of v that list v
StarHits(self, v) ==
  {ns \in DOMAIN self.stars :
     /\ Norm2(v) = Norm2(self.stars[ns][1])
     /\ \E m \in DOMAIN self.stars[ns] : self.stars[ns][m] = v}

\* the star of self.index[i]: the last star that hits v, or the 0 of np.zeros
IndexOf(self, v) ==
  LET hits == StarHits(self, v)
  IN  IF hits = {} THEN 0 ELSE (CHOOSE ns \in hits : \A o \in hits : o <= ns) - 1

\* Star.generateindices(): an array of Npts entries, assigned point by point
\* in the order of pts; a point beyond it cannot be assigned
StarGenerateindices(self) ==
  IF "index" \notin self.has THEN [st |-> self, out |-> Raise("AttributeError", "index")]
  ELSE IF self.index # None THEN [st |-> self, out |-> Return(None)]
  ELSE LET filled == [self EXCEPT !.index = [k |-> "array", of |->
                        [i \in 1..self.Npts |->
                           IF i <= Len(self.pts) THEN IndexOf(self, self.pts[i]) ELSE 0]]]
       IN  IF \E i \in DOMAIN self.pts : i > self.Npts /\ StarHits(self, self.pts[i]) # {}
             THEN [st |-> filled, out |-> Raise("IndexError", "index out of bounds")]
             ELSE [st |-> filled, out |-> Return(None)]

\* the first 0-based position of x in a list, -1 if it is not there
FirstIndex(list, x) ==
  IF \E i \in DOMAIN list : list[i] = x
    THEN (CHOOSE i \in DOMAIN list : list[i] = x /\ \A o \in 1..(i - 1) : list[o] # x) - 1
    ELSE -1

\* Star.starindex(x)
Starindex(self, x) ==
  LET gi == StarGenerateindices(self)
  IN  IF gi.out.exc # "none" THEN gi
      ELSE LET i == FirstIndex(gi.st.pts, x)
           IN  [st |-> gi.st,
                out |-> IF i < 0 THEN Return(PyInt(-1))
                        ELSE IF i + 1 > Len(gi.st.index.of)
                          THEN Raise("IndexError", "index out of bounds")
                        ELSE Return(PyInt(gi.st.index.of[i + 1]))]

\* Star.pointindex(x)
Pointindex(self, x) ==
  IF "pts" \notin self.has THEN [st |-> self, out |-> Raise("AttributeError", "pts")]
  ELSE [st |-> self, out |-> Return(PyInt(FirstIndex(self.pts, x)))]

\* ------------------------------------------------- stars.py: DoubleStar

\* DoubleStar.symmatch(x, xcomp): the pairs of points match forward or reversed
DStarSymmatch(pts, groupops, x, xcomp) ==
  LET v00 == pts[x[1] + 1]
      v01 == pts[x[2] + 1]
      v10 == pts[xcomp[1] + 1]
      v11 == pts[xcomp[2] + 1]
  IN  \/ \E g \in DOMAIN groupops :
           v00 = MatVec(groupops[g], v10) /\ v01 = MatVec(groupops[g], v11)
      \/ \E g \in DOMAIN groupops :
           v00 = MatVec(groupops[g], v11) /\ v01 = MatVec(groupops[g], v10)

\* the pairs (i1, i2) of "for i1, v1 in enumerate(self.star.pts): for dv in self.NNvect"
MakePairs(pts, NNvect) ==
  LET m == Len(NNvect)
      HasTarget(pr) == pr[2] >= 0
  IN  SelectSeq([i \in 1..(Len(pts) * m) |->
                   <<(i - 1) \div m,
                     FirstIndex(pts, VAdd(pts[((i - 1) \div m) + 1], NNvect[((i - 1) % m) + 1]))>>],
                HasTarget)

\* key=lambda x: max(np.dot(x[0], x[0]), np.dot(x[1], x[1])) on a pair of indices
PairKey(pr) == IF pr[1] * pr[1] >= pr[2] * pr[2] THEN pr[1] * pr[1] ELSE pr[2] * pr[2]

RECURSIVE Flat(_, _, _)
\* the lists ss[lo], .., ss[hi] joined in this order
Flat(ss, lo, hi) ==
  IF lo > hi THEN <<>>
  ELSE IF lo = hi THEN ss[lo]
  ELSE Flat(ss, lo, (lo + hi) \div 2) \o Flat(ss, ((lo + hi) \div 2) + 1, hi)

\* self.pairs.sort(key=...), a stable sort: the pairs of each key in their
\* order in ps, the keys ascending
SortPairs(ps) ==
  LET keys == Ascending({PairKey(ps[i]) : i \in DOMAIN ps})
      OfKey(k) == LET IsK(pr) == PairKey(pr) = k IN SelectSeq(ps, IsK)
  IN  Flat([n \in DOMAIN keys |-> OfKey(keys[n])], 1, Len(keys))

RECURSIVE DStarReps(_, _, _, _, _)
\* the positions of the pairs that start a double-star in "for pair in
\* self.pairs": the pairs, from position p on, that match the first pair of
\* no double-star started before them
DStarReps(pairs, p, reps, pts, groupops) ==
  LET new == {i \in p..Len(pairs) :
                \A r \in DOMAIN reps : ~DStarSymmatch(pts, groupops, pairs[i], pairs[reps[r]])}
  IN  IF new = {} THEN reps
      ELSE LET i == CHOOSE i \in new : \A o \in new : i <= o
           IN  DStarReps(pairs, i + 1, Append(reps, i), pts, groupops)

\* self.dstars after the loop, which goes on past a match: a pair that starts
\* no double-star is appended to every double-star whose first pair it matches
DStarLoop(pairs, pts, groupops) ==
  LET reps == DStarReps(pairs, 1, <<>>, pts, groupops)
      Members(r) == Ascending({i \in DOMAIN pairs :
                      \/ i = r
                      \/ i > r /\ DStarSymmatch(pts, groupops, pairs[i], pairs[r])})
  IN  [d \in DOMAIN reps |-> [m \in DOMAIN Members(reps[d]) |-> pairs[Members(reps[d])[m]]]]

\* DoubleStar.__init__(star); a is None or the Star object
DStarInit(a) ==
  LET s0 == [star |-> None, Ndstars |-> 0, Npairs |-> 0, Npts |-> 0, has |-> {},
             NNvect |-> <<>>, groupops |-> <<>>, pairs |-> <<>>, dstars |-> <<>>,
             index |-> None]
  IN  IF a # None
        THEN \* self.star is still None where "self.star.Nshells" reads it
             [st |-> [s0 EXCEPT !.NNvect = a.NNvect, !.groupops = a.groupops,
                                !.has = {"NNvect", "groupops"}],
              out |-> Raise("AttributeError", "'NoneType' object has no attribute 'Nshells'")]
        ELSE [st |-> s0, out |-> Return(None)]

\* DoubleStar.generate(star); a is the Star object, kept by reference
DStarGenerate(self, a) ==
  IF a.Nshells = 0 THEN [st |-> [self EXCEPT !.Npairs = 0], out |-> Return(None)]
  ELSE IF self.star # None /\ a.Npts = self.Npts THEN [st |-> self, out |-> Return(None)]
  ELSE LET pairs == SortPairs(MakePairs(a.pts, a.NNvect))
           ds == DStarLoop(pairs, a.pts, a.groupops)
       IN  [st |-> [self EXCEPT !.star = [k |-> "ref"], !.Npts = a.Npts, !.NNvect = a.NNvect,
                                !.groupops = a.groupops, !.pairs = pairs,
                                !.Npairs = Len(pairs), !.dstars = ds, !.Ndstars = Len(ds),
                                !.index = None,
                                !.has = {"NNvect", "groupops", "pairs", "dstars", "index"}],
            out |-> Return(None)]

\* the double-stars that list the pair
DStarHits(self, pr) ==
  {nds \in DOMAIN self.dstars : \E m \in DOMAIN self.dstars[nds] : self.dstars[nds][m] = pr}

\* the double-star of self.index[i]: the last one that lists the pair, or the
\* 0 of np.zeros
DIndexOf(self, pr) ==
  LET hits == DStarHits(self, pr)
  IN  IF hits = {} THEN 0 ELSE (CHOOSE n \in hits : \A o \in hits : o <= n) - 1

\* DoubleStar.generateindices(): an array of Npairs entries, assigned pair by
\* pair in the order of pairs; a pair beyond it cannot be assigned
DStarGenerateindices(self) ==
  IF "index" \notin self.has THEN [st |-> self, out |-> Raise("AttributeError", "index")]
  ELSE IF self.index # None THEN [st |-> self, out |-> Return(None)]
  ELSE LET filled == [self EXCEPT !.index = [k |-> "array", of |->
                        [i \in 1..self.Npairs |->
                           IF i <= Len(self.pairs) THEN DIndexOf(self, self.pairs[i]) ELSE 0]]]
       IN  IF \E i \in DOMAIN self.pairs : i > self.Npairs /\ DStarHits(self, self.pairs[i]) # {}
             THEN [st |-> filled, out |-> Raise("IndexError", "index out of bounds")]
             ELSE [st |-> filled, out |-> Return(None)]

\* DoubleStar.dstarindex(p)
Dstarindex(self, pr) ==
  LET gi == DStarGenerateindices(self)
  IN  IF gi.out.exc # "none" THEN gi
      ELSE LET i == FirstIndex(gi.st.pairs, pr)
           IN  [st |-> gi.st,
                out |-> IF i < 0 THEN Return(PyInt(-1))
                        ELSE IF i + 1 > Len(gi.st.index.of)
                          THEN Raise("IndexError", "index out of bounds")
                        ELSE Return(PyInt(gi.st.index.of[i + 1]))]

\* the position of p counted from one
Pairindex_onebased(self, pr) ==
  IF "pairs" \notin self.has THEN [st |-> self, out |-> Raise("AttributeError", "pairs")]
  ELSE [st |-> self, out |-> Return(PyInt(FirstIndex(self.pairs, pr) + 1))]

\* DoubleStar.pairindex(p)
Pairindex(self, pr) ==
  IF "pairs" \notin self.has THEN [st |-> self, out |-> Raise("AttributeError", "pairs")]
  ELSE [st |-> self, out |-> Return(PyInt(FirstIndex(self.pairs, pr)))]

\* ----------------------------------------------- stars.py: the state machine

MirX == <<(<<-1, 0, 0>>), (<<0, 1, 0>>), (<<0, 0, 1>>)>>
MirY == <<(<<1, 0, 0>>), (<<0, -1, 0>>), (<<0, 0, 1>>)>>
Rot2 == <<(<<-1, 0, 0>>), (<<0, -1, 0>>), (<<0, 0, 1>>)>>
Rot4 == <<(<<0, -1, 0>>), (<<1, 0, 0>>), (<<0, 0, 1>>)>>
Rot4i == <<(<<0, 1, 0>>), (<<-1, 0, 0>>), (<<0, 0, 1>>)>>
MirD == <<(<<0, 1, 0>>), (<<1, 0, 0>>), (<<0, 0, 1>>)>>
MirDi == <<(<<0, -1, 0>>), (<<-1, 0, 0>>), (<<0, 0, 1>>)>>

\* nearest-neighbour vectors with the point group of their lattice: a chain,
\* a chain with second neighbours (where two hops lead from point to point
\* within one shell), a rectangular net (where 2x and 2y have one length and two stars) and a
\* square net
StarLattices ==
  {[NNvect |-> <<(<<1, 0, 0>>), (<<-1, 0, 0>>)>>, groupops |-> <<Eye3, Inv3>>],
   [NNvect |-> <<(<<1, 0, 0>>), (<<-1, 0, 0>>), (<<2, 0, 0>>), (<<-2, 0, 0>>)>>,
    groupops |-> <<Eye3, Inv3>>],
   [NNvect |-> <<(<<2, 0, 0>>), (<<-2, 0, 0>>), (<<0, 1, 0>>), (<<0, -1, 0>>)>>,
    groupops |-> <<Eye3, MirX, MirY, Rot2>>],
   [NNvect |-> <<(<<1, 0, 0>>), (<<-1, 0, 0>>), (<<0, 1, 0>>), (<<0, -1, 0>>)>>,
    groupops |-> <<Eye3, Rot4, Rot2, Rot4i, MirX, MirY, MirD, MirDi>>]}

\* the engine of GFcalc.py is not constructed
NoEngine ==
  /\ crys = "none" /\ jumpnetwork = <<>> /\ built = FALSE
  /\ N = Unset /\ invmap = Unset /\ NG = Unset /\ grouparray = Unset
  /\ indexpair = Unset /\ kpts = Unset /\ wts = Unset /\ FTjumps = Unset
  /\ SEjumps = Unset /\ jumppairs = Unset
  /\ maxrate = Unset /\ vr = Unset /\ D = Unset /\ eta = Unset /\ uxtrans = Unset
  /\ g_Taylor_fnlu = Unset /\ gsc_ijq = Unset /\ gT_ij = Unset
  /\ committed = None
  /\ failedSince = FALSE

engine == <<crys, jumpnetwork, built, topology, rated, committed, failedSince>>

InitStar ==
  /\ NoEngine
  /\ star = Unset /\ dstar = Unset /\ sup = Unset /\ gsuper = Unset
  /\ ret = Result("none", None, Return(None))

\* Star(NNvect, groupops, Nshells); a constructor that raises leaves no object
DoStarInit ==
  /\ star = Unset
  /\ \E lat \in StarLattices, n \in 0..MaxShells :
       LET r == StarInit(lat.NNvect, lat.groupops, n)
       IN  /\ star' = IF r.out.exc = "none" THEN r.st ELSE Unset
           /\ ret' = Result("Star", PyInt(n), r.out)
  /\ UNCHANGED <<engine, dstar, sup, gsuper>>

\* star.generate(n)
DoStarGenerate ==
  /\ star # Unset
  /\ \E n \in 0..MaxShells :
       LET r == StarGenerate(star, n)
       IN  /\ star' = r.st
           /\ ret' = Result("Star.generate", PyInt(n), r.out)
  /\ UNCHANGED <<engine, dstar, sup, gsuper>>

\* the vectors asked of starindex and pointindex
StarQueries == {Vec0, <<1, 0, 0>>, <<0, 2, 0>>, <<2, 1, 0>>}

\* star.starindex(x)
DoStarindex ==
  /\ star # Unset
  /\ \E x \in StarQueries :
       LET r == Starindex(star, x)
       IN  /\ star' = r.st
           /\ ret' = Result("Star.starindex", [k |-> "vec", v |-> x], r.out)
  /\ UNCHANGED <<engine, dstar, sup, gsuper>>

\* star.pointindex(x)
DoPointindex ==
  /\ star # Unset
  /\ \E x \in StarQueries :
       LET r == Pointindex(star, x)
       IN  /\ star' = r.st
           /\ ret' = Result("Star.pointindex", [k |-> "vec", v |-> x], r.out)
  /\ UNCHANGED <<engine, dstar, sup, gsuper>>

\* DoubleStar() or DoubleStar(star)
DoDStarInit ==
  /\ dstar = Unset
  /\ \E a \in {None} \cup (IF star = Unset THEN {} ELSE {star}) :
       LET r == DStarInit(a)
       IN  /\ dstar' = IF r.out.exc = "none" THEN r.st ELSE Unset
           /\ ret' = Result("DoubleStar", IF a = None THEN None ELSE [k |-> "ref"], r.out)
  /\ UNCHANGED <<engine, star, sup, gsuper>>

\* dstar.generate(star)
DoDStarGenerate ==
  /\ dstar # Unset /\ star # Unset
  /\ LET r == DStarGenerate(dstar, star)
     IN  /\ dstar' = r.st
         /\ ret' = Result("DoubleStar.generate", [k |-> "ref"], r.out)
  /\ UNCHANGED <<engine, star, sup, gsuper>>

\* the pairs asked of dstarindex and pairindex
PairQueries == {<<0, 0>>, <<0, 1>>, <<1, 0>>, <<3, 0>>}

\* dstar.dstarindex(p)
DoDstarindex ==
  /\ dstar # Unset
  /\ \E pr \in PairQueries :
       LET r == Dstarindex(dstar, pr)
       IN  /\ dstar' = r.st
           /\ ret' = Result("DoubleStar.dstarindex", [k |-> "pair", v |-> pr], r.out)
  /\ UNCHANGED <<engine, star, sup, gsuper>>

\* dstar.pairindex(p)
DoPairindex ==
  /\ dstar # Unset
  /\ \E pr \in PairQueries :
       LET r == Pairindex(dstar, pr)
       IN  /\ dstar' = r.st
           /\ ret' = Result("DoubleStar.pairindex", [k |-> "pair", v |-> pr], r.out)
  /\ UNCHANGED <<engine, star, sup, gsuper>>

NextStar == DoStarInit \/ DoStarGenerate \/ DoStarindex \/ DoPointindex

SpecStar == InitStar /\ [][NextStar]_vars

\* a Star constructed without shells, and no DoubleStar yet
InitDStar ==
  /\ NoEngine
  /\ star \in {StarInit(lat.NNvect, lat.groupops, 0).st : lat \in StarLattices}
  /\ dstar = Unset /\ sup = Unset /\ gsuper = Unset
  /\ ret = Result("Star", PyInt(0), Return(None))

NextDStar ==
  DoStarGenerate \/ DoDStarInit \/ DoDStarGenerate \/ DoDstarindex \/ DoPairindex

SpecDStar == InitDStar /\ [][NextDStar]_vars

\* ------------------------------------------------- supercell.py: Supercell

NotImplemented == [k |-> "NotImplemented"]
GroupOp(indexmap) == [k |-> "GroupOp", indexmap |-> indexmap]

\* Supercell.__init__(crys, super, Nsolute=Nsolute) on a crystal of crysNchem
\* chemistries whose supercell holds SupSites sites: all sites vacant
SupInit(crysNchem, Nsolute) ==
  LET Nchem == IF Nsolute > 0 THEN crysNchem + Nsolute ELSE crysNchem
  IN  [crysNchem |-> crysNchem, Nchem |-> Nchem,
       occ |-> [i \in 1..SupSites |-> -1],
       chemorder |-> [n \in 1..Nchem |-> <<>>]]

\* co.pop(co.index(ind))
PopIndex(co, ind) ==
  LET i == FirstIndex(co, ind) + 1
  IN  SubSeq(co, 1, i - 1) \o SubSeq(co, i + 1, Len(co))

\* Supercell.setocc(ind, c): the object after the call, and the outcome
Setocc(self, ind, c) ==
  IF c < -2 \/ c > self.crysNchem
    THEN [st |-> self, out |-> Raise("IndexError", "non-defined chemistry")]
  ELSE LET corig == self.occ[ind + 1]
       IN  IF corig = c THEN [st |-> self, out |-> Return(None)]
           ELSE IF corig >= 0 /\ FirstIndex(self.chemorder[corig + 1], ind) < 0
             THEN [st |-> self, out |-> Raise("ValueError", "not in list")]
           ELSE LET removed == IF corig >= 0
                                 THEN [self EXCEPT !.chemorder[corig + 1] = PopIndex(@, ind)]
                                 ELSE self
                IN  IF c >= self.Nchem
                      THEN \* self.chemorder[c] does not exist
                           [st |-> removed, out |-> Raise("IndexError", "list index out of range")]
                    ELSE [st |-> [(IF c >= 0
                                     THEN [removed EXCEPT !.chemorder[c + 1] = Append(@, ind)]
                                     ELSE removed) EXCEPT !.occ[ind + 1] = c],
                          out |-> Return(None)]

\* the site that gocc[g - 1] is last assigned from in "for ind, gind in
\* enumerate(indexmap)", or 0 if none
LastFrom(indexmap, g) ==
  LET from == {ind \in DOMAIN indexmap : indexmap[ind] + 1 = g}
  IN  IF from = {} THEN 0 ELSE CHOOSE ind \in from : \A o \in from : o <= ind

\* occupancies moved against the index map
Imul_inverse(self, other) ==
  IF other.k # "GroupOp" THEN [st |-> self, out |-> Return(NotImplemented)]
  ELSE [st |-> [self EXCEPT
                  !.occ = [ind \in DOMAIN self.occ |-> self.occ[other.indexmap[ind] + 1]],
                  !.chemorder = [n \in DOMAIN self.chemorder |->
                                   [m \in DOMAIN self.chemorder[n] |->
                                      other.indexmap[self.chemorder[n][m] + 1]]]],
        out |-> Return([k |-> "self"])]

\* Supercell.__imul__(other)
Imul(self, other) ==
  IF other.k # "GroupOp" THEN [st |-> self, out |-> Return(NotImplemented)]
  ELSE LET indexmap == other.indexmap
       IN  [st |-> [self EXCEPT
                      !.occ = [g \in DOMAIN self.occ |->
                                 IF LastFrom(indexmap, g) = 0 THEN self.occ[g]
                                 ELSE self.occ[LastFrom(indexmap, g)]],
                      !.chemorder = [n \in DOMAIN self.chemorder |->
                                       [m \in DOMAIN self.chemorder[n] |->
                                          indexmap[self.chemorder[n][m] + 1]]]],
            out |-> Return([k |-> "self"])]

\* the index maps of the group of the supercell: permutations of its sites
SupG ==
  {GroupOp(f) : f \in {f \in [1..SupSites -> 0..(SupSites - 1)] :
                         \A i \in 1..SupSites, j \in 1..SupSites : (f[i] = f[j]) => (i = j)}}

\* what a caller multiplies by: an operation of the group, a number, None
Multipliers == SupG \cup {PyInt(2), None}

InitSup ==
  /\ NoEngine
  /\ star = Unset /\ dstar = Unset /\ sup = Unset /\ gsuper = Unset
  /\ ret = Result("none", None, Return(None))

\* Supercell(crys, super, Nsolute=Nsolute)
DoSupInit ==
  /\ sup = Unset
  /\ \E crysNchem \in 1..MaxChem, Nsolute \in 0..MaxSolute :
       /\ sup' = SupInit(crysNchem, Nsolute)
       /\ ret' = Result("Supercell", [k |-> "args", crysNchem |-> crysNchem, Nsolute |-> Nsolute],
                        Return(None))
  /\ UNCHANGED <<engine, star, dstar, gsuper>>

\* sup.setocc(ind, c)
DoSetocc ==
  /\ sup # Unset
  /\ \E ind \in 0..(SupSites - 1), c \in (-3)..(MaxChem + MaxSolute + 1) :
       LET r == Setocc(sup, ind, c)
       IN  /\ sup' = r.st
           /\ ret' = Result("setocc", [k |-> "args", ind |-> ind, c |-> c], r.out)
  /\ UNCHANGED <<engine, star, dstar, gsuper>>

\* sup *= other
DoImul ==
  /\ sup # Unset
  /\ \E other \in Multipliers :
       LET r == Imul(sup, other)
       IN  /\ sup' = r.st
           /\ ret' = Result("__imul__", other, r.out)
  /\ UNCHANGED <<engine, star, dstar, gsuper>>

NextSup == DoSupInit \/ DoSetocc \/ DoImul

SpecSup == InitSup /\ [][NextSup]_vars

\* ------------------------------------------- supercell.py: maketrans

\* the largest entry of a supercell matrix
MaxSuper == 2

Abs(x) == IF x < 0 THEN 0 - x ELSE x

\* the cyclic successor of a row or column number
Cyc(k) == ((k - 1) % 3) + 1

\* np.linalg.det of an integer 3x3 matrix, rounded
Det3(m) ==
  m[1][1] * (m[2][2] * m[3][3] - m[2][3] * m[3][2])
    - m[1][2] * (m[2][1] * m[3][3] - m[2][3] * m[3][1])
    + m[1][3] * (m[2][1] * m[3][2] - m[2][2] * m[3][1])

\* np.round(np.linalg.inv(super) * size): the adjugate, with the sign of det
InvSuper(m) ==
  [i \in 1..3 |-> [j \in 1..3 |->
     (IF Det3(m) < 0 THEN 0 - 1 ELSE 1)
       * (m[Cyc(j + 1)][Cyc(i + 1)] * m[Cyc(j + 2)][Cyc(i + 2)]
            - m[Cyc(j + 1)][Cyc(i + 2)] * m[Cyc(j + 2)][Cyc(i + 1)])]]

\* abs(super).max()
MaxEntry(m) ==
  CHOOSE x \in {Abs(m[i][j]) : i \in 1..3, j \in 1..3} :
    \A i \in 1..3, j \in 1..3 : Abs(m[i][j]) <= x

\* the k-th nvect of the triple loop over range(-maxN, maxN + 1), n0 outermost
Nvect(k, maxN) ==
  LET w == 2 * maxN + 1
  IN  <<((k - 1) \div (w * w)) - maxN, (((k - 1) \div w) % w) - maxN, ((k - 1) % w) - maxN>>

\* every vector of translist numbered by the length of the list after it is appended
Transdict_appended(translist) ==
  [ttup \in {translist[n] : n \in 1..Len(translist)} |-> FirstIndex(translist, ttup) + 1]

\* transdict[ttup] = len(translist), taken before ttup is appended
Transdict(translist) ==
  [ttup \in {translist[n] : n \in 1..Len(translist)} |-> FirstIndex(translist, ttup)]

\* np.dot(invsuper, nvect) % size
Reduced(tv, size) == <<tv[1] % size, tv[2] % size, tv[3] % size>>

\* Supercell.maketrans(super): np.linalg.inv raises for a singular matrix;
\* translist holds the first occurrence of every tv, in the order of the loop
Maketrans(super) ==
  LET size == Abs(Det3(super))
      invsuper == InvSuper(super)
      maxN == MaxEntry(super)
      count == (2 * maxN + 1) * (2 * maxN + 1) * (2 * maxN + 1)
      tvs == [k \in 1..count |-> Reduced(MatVec(invsuper, Nvect(k, maxN)), size)]
      firsts == Ascending({k \in 1..count : \A j \in 1..(k - 1) : tvs[j] # tvs[k]})
      translist == [n \in 1..Len(firsts) |-> tvs[firsts[n]]]
      transdict == Transdict(translist)
  IN  IF Det3(super) = 0 THEN Raise("LinAlgError", "Singular matrix")
      ELSE IF Len(translist) # size
        THEN Raise("ArithmeticError", "Somehow did not generate the correct number of translations?")
      ELSE Return([size |-> size, invsuper |-> invsuper,
                   translist |-> translist, transdict |-> transdict])

\* supercell matrices a caller hands in: upper triangular, sheared or not
Supers ==
  {<<<<a, h, 0>>, <<0, b, 0>>, <<0, 0, c>>>> :
     a \in (0 - 1)..MaxSuper, b \in (0 - 1)..MaxSuper, c \in (0 - 1)..MaxSuper, h \in 0..1}

\* a supercell matrix is at hand
InitTrans ==
  /\ NoEngine
  /\ NoOthers
  /\ \E super \in Supers : ret = Result("none", super, Return(None))

\* Supercell.maketrans(super)
DoMaketrans ==
  /\ ret.op = "none"
  /\ ret' = Result("maketrans", ret.arg, Maketrans(ret.arg))
  /\ UNCHANGED <<engine, others>>

NextTrans == DoMaketrans

SpecTrans == InitTrans /\ [][NextTrans]_vars

\* -------------------------------------------- supercell.py: gengroup

Diag(a, b, c) == <<<<a, 0, 0>>, <<0, b, 0>>, <<0, 0, c>>>>
Ident3 == Diag(1, 1, 1)
VecAdd(a, b) == <<a[1] + b[1], a[2] + b[2], a[3] + b[3]>>

\* np.dot of two 3x3 matrices
MatMul(a, b) ==
  [i \in 1..3 |-> [j \in 1..3 |-> a[i][1] * b[1][j] + a[i][2] * b[2][j] + a[i][3] * b[3][j]]]

\* an operation of crys.G as gengroup reads it: its rotation in lattice
\* coordinates, the lattice translation added to it by g0 + u, and what
\* crys.g_pos answers with it: atom n goes to atom atommap[n], displaced by the
\* lattice vector shift[n]
CrysOp(rot, atommap, shift) ==
  [k |-> "GroupOp", rot |-> rot, trans |-> Vec0, atommap |-> atommap, shift |-> shift]

\* g0 + u
OpPlus(g0, u) == [g0 EXCEPT !.trans = VecAdd(@, u)]

\* crys.g_pos(g, R, ci) for the atom number n of ci (from 1): the lattice
\* vector and the atom number of the image
G_pos(g, R, n) ==
  [Rp |-> VecAdd(VecAdd(MatVec(g.rot, R), g.trans), g.shift[n]), n1 |-> g.atommap[n]]

\* unittranslist: np.dot(self.super, t)//self.size for t in self.translist
Unittranslist(self) ==
  [n \in 1..Len(self.translist) |->
     LET v == MatVec(self.super, self.translist[n])
     IN  <<v[1] \div self.size, v[2] \div self.size, v[3] \div self.size>>]

\* np.dot(self.invsuper, np.dot(g0.rot, self.super))
Rsuper(self, g0) == MatMul(self.invsuper, MatMul(g0.rot, self.super))

\* np.all(Rsuper % self.size == 0)
KeepsSupercell(self, g0) ==
  \A i \in 1..3, j \in 1..3 : Rsuper(self, g0)[i][j] % self.size = 0

\* self.transdict[tv] * self.N + self.indexatom[ci1]
SiteOf(self, tv, n1) == self.transdict[tv] * self.N + (n1 - 1)

\* the index map of g: for R in unittranslist, for ci in self.atomindices
Indexmap(self, g) ==
  LET unit == Unittranslist(self)
  IN  [q \in 1..(Len(unit) * self.N) |->
         LET R == unit[((q - 1) \div self.N) + 1]
             n == ((q - 1) % self.N) + 1
             im == G_pos(g, R, n)
         IN  SiteOf(self, Reduced(MatVec(self.invsuper, im.Rp), self.size), im.n1)]

\* len(indexmap) != self.N*self.size
NotCovering_length(self, indexmap) == Len(indexmap) # self.N * self.size

\* len(set(indexmap)) != self.N*self.size
NotCovering(self, indexmap) ==
  Cardinality({indexmap[q] : q \in DOMAIN indexmap}) # self.N * self.size

\* Supercell.gengroup(): the operations of crys.G that keep the supercell,
\* each with every unit cell translation; ArithmeticError if one of them has
\* an index map that does not cover the sites
Gengroup(self) ==
  LET unit == Unittranslist(self)
      kept == {g0n \in DOMAIN self.crysG : KeepsSupercell(self, self.crysG[g0n])}
      cands == {OpPlus(self.crysG[g0n], unit[un]) : g0n \in kept, un \in DOMAIN unit}
  IN  IF \E g \in cands : NotCovering(self, Indexmap(self, g))
        THEN Raise("ArithmeticError", "Did not produce a correct index mapping for GroupOp")
      ELSE Return({[k |-> "GroupOp",
                    rot |-> [i \in 1..3 |-> [j \in 1..3 |->
                               Rsuper(self, g)[i][j] \div self.size]],
                    trans |-> Reduced(MatVec(self.invsuper, g.trans), self.size),
                    indexmap |-> Indexmap(self, g)] : g \in cands})

\* the part of a supercell that gengroup reads, for a crystal of Natoms atoms
\* with operations crysG and a supercell matrix that maketrans accepts
Lattice(Natoms, crysG, super) ==
  LET t == Maketrans(super).val
  IN  [N |-> Natoms, crysG |-> crysG, super |-> super, size |-> t.size,
       invsuper |-> t.invsuper, translist |-> t.translist, transdict |-> t.transdict]

\* rotations handed in as operations of a crystal: the identity, the inversion,
\* the exchange of the first two axes, and a matrix that is no rotation at all
Rotations ==
  {Ident3, Diag(0 - 1, 0 - 1, 0 - 1), <<<<0, 1, 0>>, <<1, 0, 0>>, <<0, 0, 1>>>>, Diag(0, 0, 0)}

\* the operations a crystal of Natoms atoms may list: atoms exchanged, kept,
\* or sent to the same atom by damaged group data
CrysOps(Natoms) ==
  {CrysOp(rot, atommap, [n \in 1..Natoms |-> Vec0]) :
     rot \in Rotations,
     atommap \in {f \in [1..Natoms -> 1..Natoms] :
                    \/ \A n \in 1..Natoms, o \in 1..Natoms : (f[n] = f[o]) => (n = o)
                    \/ \A n \in 1..Natoms : f[n] = f[1]}}

\* the identity of a crystal of Natoms atoms
CrysIdent(Natoms) == CrysOp(Ident3, [n \in 1..Natoms |-> n], [n \in 1..Natoms |-> Vec0])

\* supercell matrices: one, two and four cells, straight and sheared
CellSupers ==
  {Ident3, Diag(2, 1, 1), Diag(1, 1, 0 - 2), <<<<1, 1, 0>>, <<0, 2, 0>>, <<0, 0, 1>>>>,
   Diag(2, 2, 1)}

\* the number of atoms of the largest crystal
MaxAtoms == 2

\* a supercell under construction, its group not yet generated
InitGen ==
  /\ NoEngine
  /\ NoOthers
  /\ \E Natoms \in 1..MaxAtoms, super \in CellSupers :
       \E g \in CrysOps(Natoms), withIdent \in BOOLEAN :
         ret = Result("none",
                      Lattice(Natoms, IF withIdent THEN <<CrysIdent(Natoms), g>> ELSE <<g>>, super),
                      Return(None))

\* self.G = self.gengroup()
DoGengroup ==
  /\ ret.op = "none"
  /\ ret' = Result("gengroup", ret.arg, Gengroup(ret.arg))
  /\ UNCHANGED <<engine, others>>

NextGen == DoGengroup

SpecGen == InitGen /\ [][NextGen]_vars

\* ------------------------------- supercell.py: the supercell of a crystal

\* a crystal as Supercell reads it: the number of chemistries, the atoms
\* (c, i) of the unit cell, the Wyckoff sets of atoms, the operations of crys.G
CellCrystal(Nchem, atomindices, Wyckoff, G) ==
  [Nchem |-> Nchem, atomindices |-> atomindices, Wyckoff |-> Wyckoff, G |-> G]

\* one atom per cell
MonoCrystal ==
  CellCrystal(1, <<<<0, 0>>>>, {{<<0, 0>>}},
              <<CrysIdent(1), CrysOp(Diag(0 - 1, 0 - 1, 0 - 1), <<1>>, <<Vec0>>)>>)

\* two atoms of one chemistry and one Wyckoff set, exchanged by the inversion
PairCrystal ==
  CellCrystal(1, <<<<0, 0>>, <<0, 1>>>>, {{<<0, 0>>, <<0, 1>>}},
              <<CrysIdent(2), CrysOp(Diag(0 - 1, 0 - 1, 0 - 1), <<2, 1>>, <<Vec0, Vec0>>)>>)

\* two atoms of two chemistries
BinaryCrystal ==
  CellCrystal(2, <<<<0, 0>>, <<1, 0>>>>, {{<<0, 0>>}, {<<1, 0>>}},
              <<CrysIdent(2), CrysOp(Diag(0 - 1, 0 - 1, 0 - 1), <<1, 2>>, <<Vec0, Vec0>>)>>)

\* the supercells built on them, of one cell or two, without or with a solute:
\* crys, super, Nsolute
Builds ==
  {<<MonoCrystal, Diag(2, 1, 1), 0>>, <<MonoCrystal, Diag(2, 1, 1), 1>>,
   <<PairCrystal, Diag(2, 1, 1), 0>>, <<PairCrystal, Ident3, 1>>,
   <<BinaryCrystal, Ident3, 0>>, <<BinaryCrystal, Ident3, 1>>}

\* self.indexatom[ci]
Indexatom(self, ci) == FirstIndex(self.atomindices, ci)

\* self.Wyckofflist: the Wyckoff sets as sets of atom numbers, in the order of
\* their first atom
WyckoffList(crystal) ==
  LET sets == {{FirstIndex(crystal.atomindices, ci) : ci \in w} : w \in crystal.Wyckoff}
      least(w) == CHOOSE n \in w : \A o \in w : n <= o
      firsts == Ascending({least(w) : w \in sets})
  IN  [q \in 1..Len(firsts) |-> CHOOSE w \in sets : firsts[q] \in w]

\* Supercell.makesites(): the site of every translation and every atom
Makesites(translist, Natoms) ==
  [q \in 1..(Len(translist) * Natoms) |->
     <<translist[((q - 1) \div Natoms) + 1], (q - 1) % Natoms>>]

\* Supercell(crys, super, Nsolute=Nsolute): every site vacant
CellInit(crystal, super, Nsolute) ==
  LET t == Maketrans(super)
      Nchem == IF Nsolute > 0 THEN crystal.Nchem + Nsolute ELSE crystal.Nchem
      Natoms == Len(crystal.atomindices)
      made == [crysNchem |-> crystal.Nchem, Nchem |-> Nchem, super |-> super,
               interstitial |-> <<>>, N |-> Natoms, atomindices |-> crystal.atomindices,
               Wyckofflist |-> WyckoffList(crystal),
               size |-> t.val.size, invsuper |-> t.val.invsuper,
               translist |-> t.val.translist, transdict |-> t.val.transdict,
               pos |-> Makesites(t.val.translist, Natoms),
               occ |-> [q \in 1..(Natoms * t.val.size) |-> 0 - 1],
               chemorder |-> [n \in 1..Nchem |-> <<>>],
               crysG |-> crystal.G, G |-> {}]
  IN  IF t.exc # "none" THEN [st |-> Unset, out |-> t]
      ELSE IF Gengroup(made).exc # "none" THEN [st |-> Unset, out |-> Gengroup(made)]
      ELSE [st |-> [made EXCEPT !.G = Gengroup(made).val], out |-> Return(None)]

\* a position handed in as a key: the site it is closest to
Position(site) == [k |-> "array", shape |-> <<3>>, near |-> site]
Slice == [k |-> "slice"]

\* Supercell.index(pos): the index of the closest position
Index(self, pos) == pos.near

\* Supercell.__setitem__(key, value)
Setitem(self, key, value) ==
  IF key.k = "slice" THEN [st |-> self, out |-> Return(NotImplemented)]
  ELSE IF key.k = "int" THEN Setocc(self, key.v, value)
  ELSE Setocc(self, Index(self, key), value)

\* Supercell.__sane__()
Sane(self) ==
  LET occset == UNION {{self.chemorder[c][m] : m \in DOMAIN self.chemorder[c]} :
                         c \in DOMAIN self.chemorder}
  IN  /\ \A c \in DOMAIN self.chemorder : \A m \in DOMAIN self.chemorder[c] :
           self.occ[self.chemorder[c][m] + 1] = c - 1
      /\ \A ind \in DOMAIN self.occ : (ind - 1 \notin occset) => (self.occ[ind] = 0 - 1)

\* the sites fillperiodic would set if the images were counted by self.size
FillSites_size(self, ind, Wyckoff) ==
  LET indlist == IF Wyckoff
                   THEN Ascending(CHOOSE w \in {self.Wyckofflist[q] : q \in DOMAIN self.Wyckofflist} :
                                    ind \in w)
                   ELSE <<ind>>
  IN  [q \in 1..(self.size * Len(indlist)) |->
         ((q - 1) \div Len(indlist)) + indlist[((q - 1) % Len(indlist)) + 1]]

\* the sites fillperiodic sets, in the order of its list: n*self.N + i for n
\* in range(self.size) for i in indlist
FillSites(self, ind, Wyckoff) ==
  LET indlist == IF Wyckoff
                   THEN Ascending(CHOOSE w \in {self.Wyckofflist[q] : q \in DOMAIN self.Wyckofflist} :
                                    ind \in w)
                   ELSE <<ind>>
  IN  [q \in 1..(self.size * Len(indlist)) |->
         ((q - 1) \div Len(indlist)) * self.N + indlist[((q - 1) % Len(indlist)) + 1]]

RECURSIVE FillLoop(_, _, _, _)
\* for i in [...]: self.setocc(i, ci[0]); the first setocc that raises ends it
FillLoop(self, sites, p, c) ==
  IF p > Len(sites) THEN [st |-> self, out |-> Return(None)]
  ELSE LET r == Setocc(self, sites[p], c)
       IN  IF r.out.exc # "none" THEN r ELSE FillLoop(r.st, sites, p + 1, c)

\* Supercell.fillperiodic(ci, Wyckoff)
Fillperiodic(self, ci, Wyckoff) ==
  IF Indexatom(self, ci) < 0
    THEN [st |-> self, out |-> Raise("IndexError", "not a corresponding atom index")]
  ELSE FillLoop(self, FillSites(self, Indexatom(self, ci), Wyckoff), 1, ci[1])

InitCell ==
  /\ NoEngine
  /\ star = Unset /\ dstar = Unset /\ sup = Unset /\ gsuper = Unset
  /\ ret = Result("none", None, Return(None))

\* Supercell(crys, super, Nsolute=Nsolute)
DoCellInit ==
  /\ sup = Unset
  /\ \E b \in Builds :
       /\ sup' = CellInit(b[1], b[2], b[3]).st
       /\ ret' = Result("Supercell", [k |-> "args", super |-> b[2], Nsolute |-> b[3]],
                        CellInit(b[1], b[2], b[3]).out)
  /\ UNCHANGED <<engine, star, dstar, gsuper>>

\* sup.setocc(ind, c)
DoCellSetocc ==
  /\ sup # Unset
  /\ \E ind \in 0..(Len(sup.occ) - 1), c \in (0 - 3)..(sup.Nchem + 1) :
       /\ sup' = Setocc(sup, ind, c).st
       /\ ret' = Result("setocc", [k |-> "args", ind |-> ind, c |-> c], Setocc(sup, ind, c).out)
  /\ UNCHANGED <<engine, star, dstar, gsuper>>

\* sup[key] = value
DoSetitem ==
  /\ sup # Unset
  /\ \E key \in {PyInt(ind) : ind \in 0..(Len(sup.occ) - 1)}
                  \cup {Position(ind) : ind \in 0..(Len(sup.occ) - 1)} \cup {Slice},
        value \in (0 - 2)..sup.Nchem :
       /\ sup' = Setitem(sup, key, value).st
       /\ ret' = Result("__setitem__", [k |-> "args", key |-> key, value |-> value],
                        Setitem(sup, key, value).out)
  /\ UNCHANGED <<engine, star, dstar, gsuper>>

\* sup.fillperiodic(ci, Wyckoff)
DoFillperiodic ==
  /\ sup # Unset
  /\ \E ci \in {sup.atomindices[n] : n \in DOMAIN sup.atomindices} \cup {<<0, 2>>},
        Wyckoff \in BOOLEAN :
       /\ sup' = Fillperiodic(sup, ci, Wyckoff).st
       /\ ret' = Result("fillperiodic", [k |-> "args", ci |-> ci, Wyckoff |-> Wyckoff],
                        Fillperiodic(sup, ci, Wyckoff).out)
  /\ UNCHANGED <<engine, star, dstar, gsuper>>

\* sup *= other, for an operation of the group of the supercell or a number
DoCellImul ==
  /\ sup # Unset
  /\ \E other \in sup.G \cup {PyInt(2)} :
       /\ sup' = Imul(sup, other).st
       /\ ret' = Result("__imul__", other, Imul(sup, other).out)
  /\ UNCHANGED <<engine, star, dstar, gsuper>>

NextCell == DoCellInit \/ DoCellSetocc \/ DoSetitem \/ DoFillperiodic \/ DoCellImul

SpecCell == InitCell /\ [][NextCell]_vars

\* --------------------------- supercell.py: copies and products of supercells

\* the attributes copy() hands over by deepcopy, and those it equates
Copyattr ==
  {"lattice", "N", "chemistry", "size", "invsuper", "Wyckofflist", "Wyckoffchem", "occ", "chemorder"}
Eqattr == {"translist", "transdict", "pos", "G"}

\* a copy all of whose attributes are the objects of the original
Copy_equated(self) ==
  [obj |-> [self EXCEPT !.atomindices = Unset], same |-> Copyattr \cup Eqattr]

\* Supercell.copy(): a new object built with empty=True, the attributes of
\* __copyattr__ deep-copied and those of __eqattr__ equated; atomindices and
\* indexatom are in neither list.  same names the attributes of the new
\* object that are the very objects of the original.
Copy(self) ==
  [obj |-> [self EXCEPT !.atomindices = Unset], same |-> Eqattr]

\* Supercell.__eq__(other)
Eq(self, other) ==
  /\ "occ" \in DOMAIN other
  /\ self.super = other.super
  /\ self.interstitial = other.interstitial
  /\ self.pos = other.pos
  /\ self.occ = other.occ
  /\ self.chemorder = other.chemorder

\* Supercell.__mul__(other): the copy, multiplied in place; __imul__ binds a
\* new occ and a new chemorder to it
Mul(self, other) ==
  IF other.k # "GroupOp" THEN [new |-> Unset, out |-> Return(NotImplemented)]
  ELSE [new |-> [obj |-> Imul(Copy(self).obj, other).st,
                 same |-> Copy(self).same \ {"occ", "chemorder"}],
        out |-> Return([k |-> "gsuper"])]

\* Supercell.__rmul__(other)
Rmul(self, other) ==
  IF other.k # "GroupOp" THEN [new |-> Unset, out |-> Return(NotImplemented)]
  ELSE Mul(self, other)

\* an object that shares the attributes same with another one, after setocc
\* has changed that one from before to after in place
Through(obj, same, after) ==
  [obj EXCEPT !.occ = IF "occ" \in same THEN after.occ ELSE @,
              !.chemorder = IF "chemorder" \in same THEN after.chemorder ELSE @]

\* the supercells that are copied and multiplied: crys, super, Nsolute
CopyBuilds ==
  {<<MonoCrystal, Diag(2, 1, 1), 0>>, <<PairCrystal, Ident3, 0>>, <<BinaryCrystal, Ident3, 0>>}

\* a freshly constructed supercell
InitCopy ==
  /\ NoEngine
  /\ star = Unset /\ dstar = Unset /\ gsuper = Unset
  /\ \E b \in CopyBuilds : sup = CellInit(b[1], b[2], b[3]).st
  /\ ret = Result("Supercell", None, Return(None))

\* gsuper = sup.copy()
DoCopy ==
  /\ gsuper' = Copy(sup)
  /\ ret' = Result("copy", None, Return([k |-> "gsuper"]))
  /\ UNCHANGED <<engine, star, dstar, sup>>

\* gsuper = sup * other
DoMul ==
  /\ \E other \in sup.G \cup {PyInt(2)} :
       /\ gsuper' = IF Mul(sup, other).new = Unset THEN gsuper ELSE Mul(sup, other).new
       /\ ret' = Result("__mul__", other, Mul(sup, other).out)
  /\ UNCHANGED <<engine, star, dstar, sup>>

\* gsuper = other * sup
DoRmul ==
  /\ \E other \in sup.G \cup {PyInt(2)} :
       /\ gsuper' = IF Rmul(sup, other).new = Unset THEN gsuper ELSE Rmul(sup, other).new
       /\ ret' = Result("__rmul__", other, Rmul(sup, other).out)
  /\ UNCHANGED <<engine, star, dstar, sup>>

\* sup.setocc(ind, c), seen by gsuper through what it shares
DoSetoccOriginal ==
  /\ \E ind \in 0..(Len(sup.occ) - 1), c \in (0 - 1)..(sup.Nchem - 1) :
       /\ sup' = Setocc(sup, ind, c).st
       /\ gsuper' = IF gsuper = Unset THEN gsuper
                    ELSE [gsuper EXCEPT !.obj = Through(@, gsuper.same, Setocc(sup, ind, c).st)]
       /\ ret' = Result("setocc", [k |-> "args", on |-> "sup", ind |-> ind, c |-> c],
                        Setocc(sup, ind, c).out)
  /\ UNCHANGED <<engine, star, dstar>>

\* gsuper.setocc(ind, c), seen by sup through what it shares
DoSetoccReturned ==
  /\ gsuper # Unset
  /\ \E ind \in 0..(Len(gsuper.obj.occ) - 1), c \in (0 - 1)..(gsuper.obj.Nchem - 1) :
       /\ gsuper' = [gsuper EXCEPT !.obj = Setocc(gsuper.obj, ind, c).st]
       /\ sup' = Through(sup, gsuper.same, Setocc(gsuper.obj, ind, c).st)
       /\ ret' = Result("setocc", [k |-> "args", on |-> "gsuper", ind |-> ind, c |-> c],
                        Setocc(gsuper.obj, ind, c).out)
  /\ UNCHANGED <<engine, star, dstar>>

\* sup *= other: sup gets a new occ and a new chemorder
DoImulOriginal ==
  /\ \E other \in sup.G :
       /\ sup' = Imul(sup, other).st
       /\ gsuper' = IF gsuper = Unset THEN gsuper
                    ELSE [gsuper EXCEPT !.same = @ \ {"occ", "chemorder"}]
       /\ ret' = Result("__imul__", [k |-> "args", on |-> "sup", other |-> other],
                        Imul(sup, other).out)
  /\ UNCHANGED <<engine, star, dstar>>

\* gsuper *= other: gsuper gets a new occ and a new chemorder
DoImulReturned ==
  /\ gsuper # Unset
  /\ \E other \in gsuper.obj.G :
       /\ gsuper' = [obj |-> Imul(gsuper.obj, other).st,
                     same |-> gsuper.same \ {"occ", "chemorder"}]
       /\ ret' = Result("__imul__", [k |-> "args", on |-> "gsuper", other |-> other],
                        Imul(gsuper.obj, other).out)
  /\ UNCHANGED <<engine, star, dstar, sup>>

NextCopy ==
  \/ DoCopy \/ DoMul \/ DoRmul
  \/ DoSetoccOriginal \/ DoSetoccReturned \/ DoImulOriginal \/ DoImulReturned

SpecCopy == InitCopy /\ [][NextCopy]_vars

\* ------------------------------------------------------------------ claims

\* C1: __call__ raises ValueError "Need to SetRates first" in every state in
\* which no SetRates call has returned yet, whatever SetRates calls have
\* raised before; it then neither returns a value nor raises anything else.
C1_PrematureUse ==
  (ret.op = "__call__" /\ committed = None) =>
     (ret.exc = "ValueError" /\ ret.msg = "Need to SetRates first" /\ ret.val = None)

\* C4: a __call__ step writes no field of the engine, its outcome is the value
\* of Call on the engine as it stands, so that it repeats for the same
\* (i, j, dx) as long as the fields stand; and they stand until the next
\* SetRates call, whatever evaluations and accessor calls are made.
C4_Pure ==
  [][/\ (ret'.op = "__call__") =>
          /\ UNCHANGED <<topology, rated>>
          /\ ret' = Result("__call__", ret'.arg,
                            Call(Self, ret'.arg.i, ret'.arg.j, ret'.arg.dx))
          /\ (ret.op = "__call__" /\ ret.arg = ret'.arg) => ret' = ret
     /\ (ret'.op # "SetRates") => UNCHANGED <<topology, rated>>]_vars

\* an evaluation on an engine with rates has returned a value
C4_Witness ==
  /\ ret.op = "__call__" /\ ret.exc = "none" /\ ret.val.k = "float"
  /\ committed # None

\* C5: SetRates raises ArithmeticError "No equilibrium solution to rates?"
\* exactly when r[0] of DiagGamma is not 0; when SetRates returns, r[0] was 0,
\* the stored eigenvectors are those of DiagGamma, and the residual at the
\* gamma point is built from their column 0.
C5_Equilibrium ==
  (ret.op = "SetRates") =>
    LET x == ret.arg
        vecs == Eigenvectors(N)
    IN  /\ (x.r0 # 0) => (ret.exc = "ArithmeticError" /\ ret.msg = "No equilibrium solution to rates?")
        /\ (ret.msg = "No equilibrium solution to rates?") => (x.r0 # 0)
        /\ (ret.exc = "none") =>
             /\ x.r0 = 0
             /\ vr = Array(<<N, N>>, [id |-> x.id, m |-> vecs])
             /\ \A q \in DOMAIN kpts : \A i \in 0..(N - 1), j \in 0..(N - 1) :
                  (kpts[q] = Vec0) =>
                     gsc_ijq.of[i][j][q] = <<-x.id * vecs[i][0] * vecs[j][0], 0>>

\* SetRates has refused rates without an equilibrium
C5_Witness ==
  /\ ret.op = "SetRates" /\ ret.arg.r0 # 0
  /\ ret.exc = "ArithmeticError" /\ ret.msg = "No equilibrium solution to rates?"

\* the rates x get as far as the isotropization check of SetRates on n sites
ReachesIsoCheck(x, n) ==
  /\ x.r0 = 0
  /\ ~(n > 1 /\ x.sing = "rr")
  /\ ~DLoop(ReducedD(x).coefflist, 1, <<>>).raises

\* the series has a nonzero term of order n = 0
HasN0(series) == \E p \in DOMAIN series.coefflist :
                    series.coefflist[p].n = 0 /\ series.coefflist[p].c # 0

\* C6 as stated: a SetRates call that gets to the isotropization check raises
\* "Problem isotropizing D?" exactly when the rotated and reduced oT_D has a
\* nonzero n=0 term.
C6_AsStated ==
  (ret.op = "SetRates" /\ ReachesIsoCheck(ret.arg, N)) =>
     ((ret.msg = "Problem isotropizing D?")
        <=> HasN0(RotateReduce(ReducedD(ret.arg), ret.arg)))

\* C6: a SetRates call raises ArithmeticError "Problem isotropizing D?" exactly
\* when it gets to the check and the leading term of the rotated and reduced
\* oT_D has l # 0; that series never has a term n=0, and the call goes on to
\* BlockInvertOmegaTaylor exactly when the leading term has l = 0.
C6_LeadingTerm ==
  (ret.op = "SetRates") =>
    LET x == ret.arg
        oT_D == RotateReduce(ReducedD(x), x)
    IN  /\ (ret.msg = "Problem isotropizing D?") <=>
              (ReachesIsoCheck(x, N) /\ oT_D.coefflist[1].l # 0)
        /\ (ret.msg = "Problem isotropizing D?") => (ret.exc = "ArithmeticError")
        /\ ReachesIsoCheck(x, N) =>
              /\ ~HasN0(oT_D)
              /\ oT_D.coefflist[1].n = 2
              /\ (oT_D.coefflist[1].l = 0) <=>
                    (ret.exc = "none" \/ ret.msg \in {"D.inv()", "Singular matrix"})

\* the check has refused a series that begins with n=2, l=2 and has no n=0 term
C6_Witness ==
  /\ ret.op = "SetRates" /\ ret.msg = "Problem isotropizing D?"
  /\ ~HasN0(RotateReduce(ReducedD(ret.arg), ret.arg))

\* C7: __call__ on an engine with rates returns a value only if the mesh sum
\* and the Taylor part are both real; a complex mesh sum raises
\* ArithmeticError "Got complex IFT?" whatever the Taylor part is, a real mesh
\* sum with a complex Taylor part raises "Got complex IFT from Taylor?", and
\* neither case returns a value.
C7_RealOnly ==
  (ret.op = "__call__") =>
    /\ (ret.exc = "none") => (D # Zero /\ gsc_ijq # Unset /\ gT_ij # Unset)
    /\ (D # Zero /\ gsc_ijq # Unset /\ gT_ij # Unset) =>
         LET gIFT == MeshSum(Self, ret.arg.i, ret.arg.j, ret.arg.dx)
             imT == gT_ij.a[ret.arg.i][ret.arg.j].im
         IN  /\ (ret.exc = "none") <=> (gIFT[2] = 0 /\ imT = 0)
             /\ (gIFT[2] # 0) =>
                  (ret.exc = "ArithmeticError" /\ ret.msg = "Got complex IFT?" /\ ret.val = None)
             /\ (gIFT[2] = 0 /\ imT # 0) =>
                  /\ ret.exc = "ArithmeticError"
                  /\ ret.msg = "Got complex IFT from Taylor?"
                  /\ ret.val = None

\* both parts are complex and the mesh sum is the one reported
C7_Witness ==
  /\ ret.op = "__call__" /\ ret.msg = "Got complex IFT?"
  /\ gT_ij # Unset
  /\ gT_ij.a[ret.arg.i][ret.arg.j].im # 0

\* C8: once a SetRates call has returned, Diffusivity() and biascorrection()
\* return what the most recent SetRates call that returned has stored.
C8_StoredValues ==
  (committed # None) =>
    LET s == SetRates(New(Crystal(crys)), committed).st
    IN  /\ Diffusivity(Self, None) = Return(s.D)
        /\ biascorrection(Self, None) = Return(s.eta)

\* C9: once a SetRates call has returned, Diffusivity() returns a 3x3 array
\* and biascorrection() an Nx3 array; as long as none has returned,
\* Diffusivity() raises ValueError and biascorrection() returns no array.
C9_Availability ==
  /\ (committed # None) =>
       /\ Diffusivity(Self, None).exc = "none"
       /\ Diffusivity(Self, None).val.k = "array"
       /\ Diffusivity(Self, None).val.shape = <<3, 3>>
       /\ biascorrection(Self, None).val.k = "array"
       /\ biascorrection(Self, None).val.shape = <<N, 3>>
  /\ (committed = None) =>
       /\ Diffusivity(Self, None).exc = "ValueError"
       /\ biascorrection(Self, None).val.k # "array"

\* the hops of class J that start at site i
HopsFrom(J, i) == {h \in DOMAIN jumpnetwork[J] : jumpnetwork[J][h].ij[1] = i}

\* C10: after construction SEjumps[i][J] is the number of hops of class J
\* whose origin is site i, and the entries of a class add up to the number of
\* hops listed in the class.
C10_Multiplicity ==
  built =>
    \A J \in DOMAIN jumpnetwork :
      /\ \A i \in 0..(N - 1) : SEjumps[i][J] = Cardinality(HopsFrom(J, i))
      /\ SumSeq([s \in 1..N |-> SEjumps[s - 1][J]]) = Len(jumpnetwork[J])

\* a class with two hops from one site that end on the other site
C10_Witness ==
  /\ built
  /\ \E J \in DOMAIN jumpnetwork : \E i \in 0..(N - 1) :
       /\ SEjumps[i][J] = 2
       /\ \A h \in HopsFrom(J, i) : jumpnetwork[J][h].ij[2] # i
       /\ \A k \in 0..(N - 1) : k # i => SEjumps[k][J] = 0

\* the hops of class J from site i to site j
HopsBetween(J, i, j) == {h \in DOMAIN jumpnetwork[J] : jumpnetwork[J][h].ij = <<i, j>>}

RECURSIVE PhaseSum(_, _, _)
\* sum of exp(1j*k.dx) over the hops hs of class J
PhaseSum(J, k, hs) ==
  IF hs = {} THEN <<0, 0>>
  ELSE LET h == CHOOSE h \in hs : TRUE
       IN  CAdd(Cis(Dot(k, jumpnetwork[J][h].dx)), PhaseSum(J, k, hs \ {h}))

\* C11: after construction FTjumps[J][k][i][j] is the sum of exp(1j*k.dx) over
\* the hops of class J that go from i to j and over no other hop: it is 0 for
\* a pair without hop in the class, and at k = 0 it is the number of those hops.
C11_FourierSum ==
  built =>
    \A J \in DOMAIN jumpnetwork : \A k \in DOMAIN kpts :
      \A i \in 0..(N - 1), j \in 0..(N - 1) :
        /\ FTjumps[J][k][i][j] = PhaseSum(J, kpts[k], HopsBetween(J, i, j))
        /\ (HopsBetween(J, i, j) = {}) => FTjumps[J][k][i][j] = <<0, 0>>
        /\ (kpts[k] = Vec0) => FTjumps[J][k][i][j] = <<Cardinality(HopsBetween(J, i, j)), 0>>

\* a class with hops 0 -> 1 of opposite vectors and none back: at k = pi/2
\* the phases i and -i cancel while k = 0 counts two hops
C11_Witness ==
  /\ built
  /\ \E J \in DOMAIN jumpnetwork : \E k \in DOMAIN kpts :
       /\ kpts[k] = <<1, 0, 0>>
       /\ Cardinality(HopsBetween(J, 0, 1)) = 2
       /\ HopsBetween(J, 1, 0) = {}
       /\ FTjumps[J][k][0][1] = <<0, 0>>
       /\ FTjumps[J][1][0][1] = <<2, 0>>

\* the site map is a permutation of the n sites
IsPermutation(im, n) == \A t \in 0..(n - 1) : \E i \in 0..(n - 1) : im[i] = t

\* C12: after construction grouparray[g] is the rotation of operation g of
\* crys.G and indexpair[i][j][g] = (indexmap_g[i], indexmap_g[j]) of the same
\* operation; when indexmap_g is a permutation of the sites, (i, j) |->
\* indexpair[i][j][g] is one-to-one and onto the pairs of sites.
C12_ParallelTables ==
  built =>
    /\ DOMAIN grouparray = DOMAIN crys.G
    /\ \A g \in DOMAIN crys.G :
         LET im == crys.G[g].indexmap
             sites == 0..(N - 1)
         IN  /\ grouparray[g] = crys.G[g].cartrot
             /\ \A i \in sites, j \in sites : indexpair[i][j][g] = <<im[i], im[j]>>
             /\ IsPermutation(im, N) =>
                  /\ \A i \in sites, j \in sites, k \in sites, l \in sites :
                       (indexpair[i][j][g] = indexpair[k][l][g]) => (i = k /\ j = l)
                  /\ \A k \in sites, l \in sites : \E i \in sites, j \in sites :
                       indexpair[i][j][g] = <<k, l>>

\* two operations with different site maps: the identity, and the inversion
\* that exchanges the sites
C12_Witness ==
  /\ built
  /\ Len(crys.G) = 2
  /\ crys.G[1] = [cartrot |-> Eye3, indexmap |-> Ident(2)]
  /\ crys.G[2] = [cartrot |-> Inv3, indexmap |-> Swap2]
  /\ indexpair[0][1][2] = <<1, 0>>

\* C13: a SetRates call that returns has stored one residual per mesh
\* k-point: -(1/pmax**2) * outer(vr[:,0], vr[:,0]) at a k-point q = 0 and
\* inv(omega_qij[q]) minus the Taylor evaluation at every other one; the
\* matrix inverse is applied at the other k-points only, so that a call
\* raises "Singular matrix" only for an omega_qij[q] singular at some q # 0.
C13_FourierInversion ==
  (ret.op = "SetRates") =>
    LET x == ret.arg
        sites == 0..(N - 1)
    IN  /\ (ret.exc = "none") =>
             /\ gsc_ijq.shape = <<N, N, Len(kpts)>>
             /\ \A i \in sites, j \in sites :
                  /\ DOMAIN gsc_ijq.of[i][j] = DOMAIN kpts
                  /\ \A q \in DOMAIN kpts :
                       gsc_ijq.of[i][j][q] =
                         IF kpts[q] = Vec0
                           THEN <<-x.id * vr.of.m[i][0] * vr.of.m[j][0], 0>>
                           ELSE SemiResidual(x, i, j)
        /\ (ret.exc = "LinAlgError") =>
             (x.sing = "q" /\ \E q \in DOMAIN kpts : kpts[q] # Vec0)
        /\ (x.sing = "none" /\ ReachesIsoCheck(x, N) /\ x.iso) => (ret.exc = "none")

\* SetRates has returned on a mesh that holds the gamma point and others
C13_Witness ==
  /\ ret.op = "SetRates" /\ ret.exc = "none"
  /\ \E q \in DOMAIN kpts : kpts[q] = Vec0
  /\ \E q \in DOMAIN kpts : kpts[q] # Vec0 /\ gsc_ijq.of[0][0][q] = SemiResidual(ret.arg, 0, 0)

\* some operation of the group takes b to a
Related(a, b, groupops) == \E g \in DOMAIN groupops : a = MatVec(groupops[g], b)

\* the stars that list the vector v
StarsOf(self, v) ==
  {ns \in DOMAIN self.stars : \E m \in DOMAIN self.stars[ns] : self.stars[ns][m] = v}

\* C14: a Star with n >= 1 shells holds a partition of its points into
\* orbits: Npts is the number of points and the sum of the sizes of the
\* stars, no point is listed twice, every point is in exactly one star, and
\* any two vectors of a star are related by an operation of the group.
C14_StarPartition ==
  (star # Unset /\ star.Nshells >= 1) =>
    /\ star.Npts = Len(star.pts)
    /\ star.Nstars = Len(star.stars)
    /\ star.Npts = SumSeq([ns \in DOMAIN star.stars |-> Len(star.stars[ns])])
    /\ \A i \in DOMAIN star.pts, j \in DOMAIN star.pts : (star.pts[i] = star.pts[j]) => (i = j)
    /\ \A i \in DOMAIN star.pts : Cardinality(StarsOf(star, star.pts[i])) = 1
    /\ \A ns \in DOMAIN star.stars : \A a \in DOMAIN star.stars[ns], b \in DOMAIN star.stars[ns] :
         Related(star.stars[ns][a], star.stars[ns][b], star.groupops)

\* two stars of one length: 2x and 2y of the rectangular net
C14_Witness ==
  /\ star # Unset /\ star.Nshells >= 2
  /\ \E n1 \in DOMAIN star.stars, n2 \in DOMAIN star.stars :
       /\ n1 # n2
       /\ Norm2(star.stars[n1][1]) = Norm2(star.stars[n2][1])
       /\ Len(star.stars[n1]) = 2

\* C15: on a Star on which generate(n) has run, starindex(v) is the number of
\* the star that lists v, pointindex(pts[i]) is i, the zero vector is no point
\* and starindex and pointindex return -1 for it.
C15_StarIndexing ==
  (star # Unset) =>
    /\ \A ns \in DOMAIN star.stars : \A m \in DOMAIN star.stars[ns] :
         Starindex(star, star.stars[ns][m]).out = Return(PyInt(ns - 1))
    /\ \A i \in DOMAIN star.pts : Pointindex(star, star.pts[i]).out = Return(PyInt(i - 1))
    /\ \A i \in DOMAIN star.pts : star.pts[i] # Vec0
    /\ Starindex(star, Vec0).out = Return(PyInt(-1))
    /\ Pointindex(star, Vec0).out = Return(PyInt(-1))

\* C16: Star(NNvect, groupops, Nshells=n) with n > 0 returns an object with
\* Nshells = n that holds what generate(n) makes of an object constructed
\* without shells.
C16_ConstructWithShells ==
  (ret.op = "Star" /\ ret.arg.v > 0) =>
    /\ ret.exc = "none"
    /\ star # Unset
    /\ star = StarGenerate(StarInit(star.NNvect, star.groupops, 0).st, ret.arg.v).st

\* C17: DoubleStar(star) on a star with Nshells > 0 returns an object with
\* self.star the given star, Npairs = len(pairs) > 0 and Ndstars = len(dstars) > 0.
C17_ConstructFromStar ==
  (ret.op = "DoubleStar" /\ ret.arg # None /\ star.Nshells > 0) =>
    /\ ret.exc = "none"
    /\ dstar # Unset
    /\ dstar.star = [k |-> "ref"]
    /\ dstar.Npairs = Len(dstar.pairs) /\ dstar.Npairs > 0
    /\ dstar.Ndstars = Len(dstar.dstars) /\ dstar.Ndstars > 0

\* the double-stars that list the pair
DStarsOf(self, pr) ==
  {nds \in DOMAIN self.dstars : \E m \in DOMAIN self.dstars[nds] : self.dstars[nds][m] = pr}

C19_DefinedChemistries ==
  [][(ret'.op = "setocc") =>
       IF ret'.arg.c = -1 \/ (0 <= ret'.arg.c /\ ret'.arg.c < sup.Nchem)
         THEN ret'.exc = "none" /\ sup'.occ[ret'.arg.ind + 1] = ret'.arg.c
         ELSE /\ ret'.exc = "IndexError" /\ ret'.msg = "non-defined chemistry"
              /\ sup'.occ = sup.occ /\ sup'.chemorder = sup.chemorder]_vars

\* the sites of chemistry c
SitesOf(occ, c) == {i \in DOMAIN occ : occ[i] = c}

\* C20: sup *= g with g an operation of the group moves the occupancy by g's
\* index map: occ[indexmap[ind]] is the occ[ind] of before for every site,
\* every chemorder list holds the mapped indices in the same order, and the
\* number of sites of each chemistry stays; multiplying by something that is
\* no GroupOp returns NotImplemented and changes nothing.
C20_Permutes ==
  [][(ret'.op = "__imul__") =>
       IF ret'.arg.k = "GroupOp"
         THEN /\ \A ind \in DOMAIN sup.occ :
                   sup'.occ[ret'.arg.indexmap[ind] + 1] = sup.occ[ind]
              /\ DOMAIN sup'.chemorder = DOMAIN sup.chemorder
              /\ \A n \in DOMAIN sup.chemorder :
                   /\ Len(sup'.chemorder[n]) = Len(sup.chemorder[n])
                   /\ \A m \in DOMAIN sup.chemorder[n] :
                        sup'.chemorder[n][m] = ret'.arg.indexmap[sup.chemorder[n][m] + 1]
              /\ \A c \in (-2)..(MaxChem + MaxSolute) :
                   Cardinality(SitesOf(sup'.occ, c)) = Cardinality(SitesOf(sup.occ, c))
         ELSE ret'.val = NotImplemented /\ sup' = sup]_vars

\* a rotation of the three sites applied to sites of different occupancy, two
\* of them of one chemistry
C20_Witness ==
  /\ ret.op = "__imul__" /\ ret.arg.k = "GroupOp"
  /\ \A i \in DOMAIN ret.arg.indexmap : ret.arg.indexmap[i] # i - 1
  /\ \E i \in DOMAIN sup.occ, j \in DOMAIN sup.occ : sup.occ[i] # sup.occ[j]
  /\ \E n \in DOMAIN sup.chemorder : Len(sup.chemorder[n]) >= 2

\* C22: a SetRates call that raises after an earlier one has returned leaves
\* maxrate, D, eta, gsc_ijq, gT_ij, g_Taylor_fnlu and uxtrans as they were, so
\* that every __call__(i, j, dx) returns what it returned before the call.
C22_FailureKeepsCommitted ==
  [][(ret'.op = "SetRates" /\ ret'.exc # "none" /\ committed # None) =>
       /\ UNCHANGED <<maxrate, D, eta, gsc_ijq, gT_ij, g_Taylor_fnlu, uxtrans>>
       /\ \A i \in 0..(N - 1), j \in 0..(N - 1), dx \in EvalDx :
            Call([Self EXCEPT !.maxrate = maxrate', !.vr = vr', !.D = D', !.eta = eta',
                              !.uxtrans = uxtrans', !.g_Taylor_fnlu = g_Taylor_fnlu',
                              !.gsc_ijq = gsc_ijq', !.gT_ij = gT_ij'], i, j, dx)
              = Call(Self, i, j, dx)]_vars

\* C24: for every jump class J and site i, the entries FTjumps[J, k=0, i, j]
\* summed over j give SEjumps[i, J], and so do the n = 0 coefficients of the
\* Taylor expansion of the class: the three are counts of the same hops.
C24_HopCount ==
  built =>
    \A J \in DOMAIN jumpnetwork : \A i \in 0..(N - 1) :
      /\ \A k \in DOMAIN kpts : (kpts[k] = Vec0) =>
           CSum([s \in 1..N |-> FTjumps[J][k][i][s - 1]]) = <<SEjumps[i][J], 0>>
      /\ SumSeq([s \in 1..N |-> TaylorExpandJumps(jumpnetwork, N)[J][i][s - 1]]) = SEjumps[i][J]

\* a class with two hops between one pair of sites and one more from the
\* same site to another
C24_Witness ==
  /\ built
  /\ \E J \in DOMAIN jumpnetwork : \E i \in 0..(N - 1), j \in 0..(N - 1) :
       /\ Cardinality(HopsBetween(J, i, j)) = 2
       /\ SEjumps[i][J] = 3
       /\ FTjumps[J][1][i][j] = <<2, 0>>

\* C23: on a lattice with N = 1 the block rotation takes D from dd alone,
\* inverts no rr there or in the block inversion, and SetRates stores the
\* all-zero 1x3 bias correction; with N > 1 D is dd - dr*rr.inv()*rd and eta
\* comes from rr.inv()*rd truncated to order 1.
C23_SingleSite ==
  built =>
    /\ \A x \in RateInputs : ((x.sing = "rr") => (N > 1)) =>
         LET br == BlockRotateOmegaTaylor(Self, x)
         IN  IF N = 1
               THEN /\ br.exc = "none"
                    /\ br.val.D_from = "dd" /\ br.val.inverted = <<>>
                    /\ br.val.etav = Zero
                    /\ \A p \in DOMAIN BlockInvertInversions(Self) :
                         BlockInvertInversions(Self)[p] # "rr"
                    /\ biascorrection(Self, br.val.etav) = Return(Array(<<1, 3>>, [terms |-> <<>>]))
               ELSE (br.exc = "none") =>
                    /\ br.val.D_from = "dd - dr*rr.inv()*rd"
                    /\ br.val.etav # Zero
                    /\ \A p \in DOMAIN br.val.etav.coefflist : br.val.etav.coefflist[p].n <= 1
    /\ (ret.op = "SetRates" /\ ret.exc = "none") =>
         IF N = 1 THEN eta = Array(<<1, 3>>, [terms |-> <<>>])
         ELSE eta = biascorrection(Self, T3D(<<Term(1, 1, ret.arg.id)>>)).val /\ eta.of.terms # <<>>

\* SetRates has returned on the one-site chain
C23_Witness ==
  /\ built /\ N = 1
  /\ ret.op = "SetRates" /\ ret.exc = "none"
  /\ eta # Zero /\ D # Zero

\* ------------------------------------------------ Diffusivity, entry by entry

\* the largest real part of a coefficient of an expansion handed to Diffusivity
MaxCoef == 3

\* (t.count(0), t.count(1), t.count(2)): the powers of x0, x1, x2 in x_i x_j
PowerOf(i, j) ==
  <<(IF i = 0 THEN 1 ELSE 0) + (IF j = 0 THEN 1 ELSE 0),
    (IF i = 1 THEN 1 ELSE 0) + (IF j = 1 THEN 1 ELSE 0),
    (IF i = 2 THEN 1 ELSE 0) + (IF j = 2 THEN 1 ELSE 0)>>

\* the pairs (i, j) with i <= j, in the order of the generator
UpperPairs == <<<<0, 0>>, <<0, 1>>, <<0, 2>>, <<1, 1>>, <<1, 2>>, <<2, 2>>>>

\* the constant power
Pow0 == <<0, 0, 0>>

\* the real part of a coefficient
Real(z) == z[1]

\* twice what an n=2 term would add to D[a, b] if only D[t] were updated
TermAdds_upper(term, a, b) ==
  (IF a = b THEN 2 * Real(term.c[Pow0]) ELSE 0)
  + (IF term.l >= 2
       THEN SumSeq([q \in 1..6 |->
              (IF UpperPairs[q] = <<a, b>> THEN 1 ELSE 0)
                * Real(term.c[PowerOf(UpperPairs[q][1], UpperPairs[q][2])])])
       ELSE 0)

\* twice what an n=2 term adds to D[a, b]: eye(3)*c[0].real, and for l >= 2
\* 0.5*c[ind].real to D[t] and to D[t[1], t[0]] for every t = (i, j), i <= j
TermAdds(term, a, b) ==
  (IF a = b THEN 2 * Real(term.c[Pow0]) ELSE 0)
  + (IF term.l >= 2
       THEN SumSeq([q \in 1..6 |->
              ((IF UpperPairs[q] = <<a, b>> THEN 1 ELSE 0)
                 + (IF <<UpperPairs[q][2], UpperPairs[q][1]>> = <<a, b>> THEN 1 ELSE 0))
                * Real(term.c[PowerOf(UpperPairs[q][1], UpperPairs[q][2])])])
       ELSE 0)

\* twice the entries of the array -D*self.maxrate that Diffusivity returns
Entries2(arr) ==
  [a \in 0..2 |-> [b \in 0..2 |->
     (0 - arr.of.maxrate.of)
       * SumSeq([p \in 1..Len(arr.of.terms) |-> TermAdds(arr.of.terms[p], a, b)])]]

\* the powers a coefficient vector of angular order l has an entry for
PowersUpTo(l) ==
  {Pow0} \cup (IF l >= 2 THEN {PowerOf(i, j) : i \in 0..2, j \in 0..2} ELSE {})

\* a coefficient vector: c0 for the constant, v for the power pw, 0 elsewhere
CoefVector(l, c0, pw, v, im) ==
  [q \in PowersUpTo(l) |-> IF q = Pow0 THEN <<c0, im>>
                           ELSE IF q = pw THEN <<v, im>> ELSE <<0, 0>>]

\* the terms (n, l, c) of the expansions handed to Diffusivity
DTerms ==
  {Term(n, 0, CoefVector(0, c0, Pow0, 0, 0)) : n \in {1, 2, 4}, c0 \in {1, 2}}
    \cup {Term(2, 2, CoefVector(2, c0, PowerOf(t[1], t[2]), v, im)) :
            c0 \in {0, 1}, t \in {UpperPairs[q] : q \in 1..6},
            v \in {0 - 1, MaxCoef}, im \in {1}}

\* the reduced expansions handed to Diffusivity: one or two terms
DExpansions ==
  {[coefflist |-> <<t>>] : t \in DTerms}
    \cup {[coefflist |-> <<t, u>>] : t \in DTerms, u \in DTerms}

\* a constructed engine, without a rate scale or with the one SetRates stores
InitDif ==
  /\ crys = "Chain1"
  /\ jumpnetwork = Crystal(crys).jumpnetwork
  /\ built = TRUE
  /\ \E r \in {Unset} \cup {Float(q) : q \in 1..MaxRates} :
       Is([New(Crystal(crys)) EXCEPT !.maxrate = r])
  /\ ret = Result("__init__", None, Return(None))
  /\ committed = None
  /\ failedSince = FALSE
  /\ NoOthers

\* Diffusivity(omega_Taylor_D) with an explicit expansion
DoDiffusivityOf ==
  /\ \E e \in DExpansions : ret' = Result("Diffusivity", e, Diffusivity(Self, e))
  /\ UNCHANGED <<engine, others>>

NextDif == DoDiffusivityOf

SpecDif == InitDif /\ [][NextDif]_vars

\* whether every term of the expansion has n >= 2
AllFromTwo(e) == \A p \in 1..Len(e.coefflist) : e.coefflist[p].n >= 2

\* the sum of the real parts of the coefficients of power pw over the n=2 terms
\* with l >= lmin
CoefSum(e, pw, lmin) ==
  SumSeq([p \in 1..Len(e.coefflist) |->
    IF e.coefflist[p].n = 2 /\ e.coefflist[p].l >= lmin
      THEN Real(e.coefflist[p].c[pw]) ELSE 0])

\* C25: on an engine with a rate scale, Diffusivity(omega_Taylor_D) of an
\* expansion whose terms all have n >= 2 returns a symmetric 3x3 array which is
\* -maxrate times the sum over the n=2 terms of: the constant coefficient on
\* each of the three diagonal entries, for l >= 2 the full coefficient of x_a^2
\* on D[a,a] and half the coefficient of x_a x_b on each of D[a,b] and D[b,a]
\* (entries are compared doubled)
C25_Symmetric ==
  (ret.op = "Diffusivity" /\ ret.arg # None /\ maxrate # Unset /\ AllFromTwo(ret.arg)) =>
    /\ ret.exc = "none"
    /\ ret.val.k = "array" /\ ret.val.shape = <<3, 3>>
    /\ \A a \in 0..2, b \in 0..2 :
         /\ Entries2(ret.val)[a][b] = Entries2(ret.val)[b][a]
         /\ Entries2(ret.val)[a][b] =
              (0 - maxrate.of)
                * (IF a = b
                     THEN 2 * CoefSum(ret.arg, Pow0, 0) + 2 * CoefSum(ret.arg, PowerOf(a, a), 2)
                     ELSE CoefSum(ret.arg, PowerOf(a, b), 2))

\* an l=2 term with a mixed power next to an l=0 term went through Diffusivity
C25_Witness ==
  /\ ret.op = "Diffusivity" /\ ret.arg # None /\ maxrate # Unset /\ AllFromTwo(ret.arg)
  /\ ret.exc = "none"
  /\ Len(ret.arg.coefflist) = 2
  /\ ret.arg.coefflist[1].l = 0 /\ ret.arg.coefflist[1].n = 2
  /\ ret.arg.coefflist[2].l = 2
  /\ Entries2(ret.val)[0][1] # 0
  /\ Entries2(ret.val)[2][2] # 0

\* C30: in every state reached by generate calls the Star counters describe the
\* stored data, Nstars = len(stars) and Npts = len(pts) wherever stars and pts
\* exist, pointindex reports no point beyond Npts, and generate(n) applied
\* again changes nothing.
C30_CountersDescribeData ==
  (star # Unset) =>
    /\ ("stars" \in star.has) => (star.Nstars = Len(star.stars))
    /\ ("pts" \in star.has) => (star.Npts = Len(star.pts))
    /\ \A i \in DOMAIN star.pts :
         Pointindex(star, star.pts[i]).out.exc = "none"
           => Pointindex(star, star.pts[i]).out.val.v < star.Npts
    /\ ("Nshells" \in star.has) => (StarGenerate(star, star.Nshells).st = star)

C27_Permutations ==
  (ret.op = "gengroup") =>
    /\ (ret.exc = "none") =>
         \A g \in ret.val :
           /\ Len(g.indexmap) = ret.arg.N * ret.arg.size
           /\ \A site \in 0..(ret.arg.N * ret.arg.size - 1) :
                Cardinality({q \in DOMAIN g.indexmap : g.indexmap[q] = site}) = 1
    /\ (\E g0n \in DOMAIN ret.arg.crysG, un \in 1..ret.arg.size :
          /\ KeepsSupercell(ret.arg, ret.arg.crysG[g0n])
          /\ \E site \in 0..(ret.arg.N * ret.arg.size - 1) :
               Cardinality({q \in 1..(ret.arg.N * ret.arg.size) :
                  Indexmap(ret.arg, OpPlus(ret.arg.crysG[g0n], Unittranslist(ret.arg)[un]))[q]
                    = site}) # 1)
         => ret.exc = "ArithmeticError"

\* a group of more than two operations returned for a supercell of several
\* cells of a crystal of two atoms, one of its operations exchanging the atoms
C27_Witness ==
  /\ ret.op = "gengroup" /\ ret.exc = "none"
  /\ ret.arg.N = 2 /\ ret.arg.size > 1
  /\ Cardinality(ret.val) > 2
  /\ \E g \in ret.val : g.indexmap[1] = 1

\* C26: a freshly constructed supercell is sane, and every setocc, __setitem__,
\* fillperiodic and __imul__ call that returns without raising on a sane
\* supercell leaves it sane: every index listed in chemorder[c] has occ = c
\* and every site listed in no chemorder list has occ = -1.
C26_SaneInvariant ==
  [][(ret'.exc = "none" /\ (sup = Unset \/ Sane(sup))) => Sane(sup')]_vars

\* the sites fillperiodic(ci, Wyckoff) is to set on self
C29_Targets(self, ci, Wyckoff) ==
  {n * self.N + i :
     n \in 0..(self.size - 1),
     i \in IF Wyckoff
             THEN UNION {w \in {self.Wyckofflist[q] : q \in DOMAIN self.Wyckofflist} :
                           Indexatom(self, ci) \in w}
             ELSE {Indexatom(self, ci)}}

\* C29: after a fillperiodic(ci, Wyckoff) that returns, every site n*N + i, for
\* n in 0..size-1 and i in the Wyckoff set of ci (Wyckoff=True) or i the index
\* of ci (Wyckoff=False), has occupancy ci[0], no other site's occupancy has
\* changed, and the same call made again changes neither occ nor chemorder.
C29_FillsImages ==
  [][(ret'.op = "fillperiodic" /\ ret'.exc = "none") =>
       /\ \A site \in 0..(Len(sup.occ) - 1) :
            IF site \in C29_Targets(sup, ret'.arg.ci, ret'.arg.Wyckoff)
              THEN sup'.occ[site + 1] = ret'.arg.ci[1]
              ELSE sup'.occ[site + 1] = sup.occ[site + 1]
       /\ Fillperiodic(sup', ret'.arg.ci, ret'.arg.Wyckoff).out.exc = "none"
       /\ Fillperiodic(sup', ret'.arg.ci, ret'.arg.Wyckoff).st.occ = sup'.occ
       /\ Fillperiodic(sup', ret'.arg.ci, ret'.arg.Wyckoff).st.chemorder = sup'.chemorder]_vars

\* a Wyckoff set of two atoms filled over two cells, one of the sites having
\* been occupied before the call
C29_Witness ==
  /\ ret.op = "fillperiodic" /\ ret.exc = "none" /\ ret.arg.Wyckoff
  /\ sup.N = 2 /\ sup.size = 2
  /\ Len(sup.chemorder[1]) = 4
  /\ sup.chemorder[1][1] # 0

\* C21: copy() and a product by a GroupOp leave occ and chemorder of the
\* original as they were, copy() returns a supercell equal (__eq__) to the
\* original, and no later setocc or __imul__ on the returned supercell changes
\* occ or chemorder of the original, nor one on the original those of the
\* returned supercell.
C21_Independent ==
  [][/\ (ret'.op \in {"copy", "__mul__", "__rmul__"}) =>
          /\ sup'.occ = sup.occ /\ sup'.chemorder = sup.chemorder
          /\ (ret'.val # NotImplemented) => (gsuper' # Unset)
     /\ (ret'.op = "copy") => (Eq(sup', gsuper'.obj) /\ Eq(gsuper'.obj, sup'))
     /\ (ret'.op \in {"setocc", "__imul__"} /\ gsuper # Unset /\ ret'.arg.on = "gsuper") =>
          (sup'.occ = sup.occ /\ sup'.chemorder = sup.chemorder)
     /\ (ret'.op \in {"setocc", "__imul__"} /\ gsuper # Unset /\ ret'.arg.on = "sup") =>
          (gsuper'.obj.occ = gsuper.obj.occ /\ gsuper'.obj.chemorder = gsuper.obj.chemorder)]_vars

\* a site of the returned supercell was occupied while the original, occupied
\* elsewhere, stayed as it was
C21_Witness ==
  /\ gsuper # Unset
  /\ ret.op = "setocc" /\ ret.exc = "none" /\ ret.arg.on = "gsuper" /\ ret.arg.c = 0
  /\ gsuper.obj.occ # sup.occ
  /\ \E i \in DOMAIN sup.occ : sup.occ[i] = 0
  /\ sup.occ[ret.arg.ind + 1] = 0 - 1

====
